---- MODULE Spec2Model ----
(***************************************************************************)
(* Film recommendation engine: the rating Store (movies, user ratings,     *)
(* cast members, poster analyses, cached analyses, import job records,     *)
(* chat transcript),                                                       *)
(* the CSV importer, the scraping/import endpoints, the preference         *)
(* analyzer's cache and the chat turn of the assistant.                    *)
(*                                                                         *)
(* The Store is a relational database shared by every request worker and   *)
(* background task.  A step of the model is one transaction step of the    *)
(* source (a query, a flush, a commit); the sequential specifications      *)
(* take a whole handler or a whole row as one step.                        *)
(***************************************************************************)
EXTENDS Integers, Sequences, FiniteSets, TLC

VARIABLES
    movies,        \* committed Movie rows, in insertion order
    ratings,       \* committed UserRating rows
    cast,          \* committed CastMember rows
    posters,       \* committed PosterAnalysis rows
    prefs,         \* committed UserPreferences rows (cached analyses)
    jobs,          \* committed ScrapingStatus rows, in created_at order
    chatMessages,  \* per conversation, its committed ChatMessage rows
    imp,           \* the CSVImporter background tasks, one per session
    req,           \* the scraping endpoint handlers in flight
    ret,           \* the response of the analysis request being served
    chat           \* the chat request in flight

vars == <<movies, ratings, cast, posters, prefs, jobs, chatMessages, imp, req, ret, chat>>

store == <<movies, ratings, cast>>

----------------------------------------------------------------------------
(* Bounds of the model *)

\* rows in one CSV file
MaxRows == 2
\* import jobs admitted in one behaviour of the sequential specification
MaxRuns == 2
\* concurrent importer sessions
NumImporters == 2
\* requests to the scraping endpoints in flight at once
NumHandlers == 2
\* ScrapingStatus rows created in one behaviour of the job specification
MaxJobs == 2
\* user messages stored in one behaviour of the chat specifications
MaxTurns == 2
\* content blocks of an LLM response in the chat specification
MaxBlocks == 2

----------------------------------------------------------------------------
(* Values *)

\* Python None / pandas NaN: an optional value is a sequence of length <= 1
None == <<>>
Some(x) == <<x>>
IsNone(o) == o = <<>>
Val(o) == o[1]

Max(a, b) == IF a >= b THEN a ELSE b
Min(a, b) == IF a <= b THEN a ELSE b

RECURSIVE SeqSum(_)
SeqSum(s) == IF s = <<>> THEN 0 ELSE s[1] + SeqSum(Tail(s))

\* s[:n]
Take(s, n) == SubSeq(s, 1, Min(n, Len(s)))

\* the elements of s that satisfy Test, in order
SelectSeqBy(s, Test(_)) == SelectSeq(s, Test)

\* first element satisfying Test as an optional value: Query.first()
First(s, Test(_)) ==
    LET hit == SelectSeq(s, Test)
    IN  IF hit = <<>> THEN None ELSE Some(hit[1])

----------------------------------------------------------------------------
(* CSV cells and rows *)

\* str.strip() on a string held as a sequence of characters
RECURSIVE LStrip(_)
LStrip(s) == IF s # <<>> /\ s[1] = " " THEN LStrip(Tail(s)) ELSE s

RECURSIVE RStrip(_)
RStrip(s) ==
    IF s # <<>> /\ s[Len(s)] = " " THEN RStrip(SubSeq(s, 1, Len(s) - 1)) ELSE s

Strip(s) == RStrip(LStrip(s))

\* imdb_id.startswith('tt')
StartsWithTT(s) == Len(s) >= 2 /\ s[1] = "t" /\ s[2] = "t"

\* a 'Your Rating' cell: NaN, a number, or text int() cannot parse
NumCell(n) == [nan |-> FALSE, parsable |-> TRUE, value |-> n]
NaNCell == [nan |-> TRUE, parsable |-> FALSE, value |-> 0]
TextCell == [nan |-> FALSE, parsable |-> FALSE, value |-> 0]

CsvRow(c, r, t, y, rt, g, d) ==
    [Const |-> c, Rating |-> r, Title |-> t, Year |-> y, Runtime |-> rt,
     Genres |-> g, Directors |-> d, ImdbRating |-> None]

\* the row with its 'IMDb Rating' cell filled, in tenths
WithImdbRating(row, x) == [row EXCEPT !.ImdbRating = Some(x)]

\* the end-to-end rows of the specification (tt001 "A" 2000 9 Drama,War and
\* tt002 "B" 2000 3 Comedy) and rows that exercise each failure of a row
RowA == CsvRow(<<"t", "t", "1">>, NumCell(9), Some("A"), Some(2000), Some(89),
               <<"Drama", "War">>, <<"Nolan">>)
RowB == CsvRow(<<"t", "t", "2">>, NumCell(3), Some("B"), Some(1995), Some(150),
               <<"Comedy">>, <<"Nolan", "", "Coen", "Lee", "Kim">>)
\* the same title as RowA, padded id, other data
RowA2 == CsvRow(<<" ", "t", "t", "1">>, NumCell(5), Some("A2"), None, None,
                <<>>, <<>>)
RowNoRating == CsvRow(<<"t", "t", "3">>, NaNCell, Some("C"), Some(2010), Some(120),
                      <<"Drama">>, <<"Coen">>)
RowBadRating == CsvRow(<<"t", "t", "2">>, TextCell, Some("B"), Some(1995), Some(150),
                       <<"Comedy">>, <<"Coen">>)
RowBadId == CsvRow(<<"n", "m", "1">>, NumCell(7), Some("D"), Some(2010), Some(100),
                   <<"War">>, <<"Lee">>)
RowNoTitle == CsvRow(<<"t", "t", "4">>, NumCell(7), None, Some(2010), Some(100),
                     <<"War">>, <<"Lee">>)

CsvRows == {RowA, RowB, RowA2, RowNoRating, RowBadRating, RowBadId, RowNoTitle}

RECURSIVE SeqsUpTo(_, _)
SeqsUpTo(S, n) ==
    IF n = 0 THEN {<<>>}
    ELSE LET shorter == SeqsUpTo(S, n - 1)
         IN  shorter \cup {Append(s, x) : s \in {t \in shorter : Len(t) = n - 1}, x \in S}

\* a CSV file on disk: whether it exists when the importer opens it, whether
\* it holds the required columns, and its rows
CsvFile(e, c, rows) == [exists |-> e, columns |-> c, rows |-> rows]

\* the rows the files of the sequential specification are made of
FileRows == {RowA, RowB, RowA2, RowBadRating}

CsvFiles ==
    {CsvFile(TRUE, TRUE, rows) : rows \in SeqsUpTo(FileRows, MaxRows)}
        \cup {CsvFile(FALSE, TRUE, <<RowA>>), CsvFile(TRUE, FALSE, <<RowA>>)}

----------------------------------------------------------------------------
(* CSVImporter: one row *)

\* _clean_text_field on a list cell: the stripped, non-empty parts
NonEmpty(tok) == tok # ""
CleanList(cell) == SelectSeq(cell, NonEmpty)

\* _clean_text_field returns None: the cell is NaN or blank text
IsBlank(cell) == cell = <<>> \/ cell = <<"">>

\* _extract_movie_data
ExtractMovieData(row) ==
    [imdb_id |-> Strip(row.Const),
     title |-> row.Title,
     year |-> row.Year,
     runtime_minutes |-> row.Runtime,
     imdb_rating |-> row.ImdbRating,
     genres |-> IF IsBlank(row.Genres) THEN None ELSE Some(CleanList(row.Genres)),
     director |-> IF IsBlank(row.Directors) THEN None ELSE Some(row.Directors[1])]

\* _extract_rating_data: the rating, or None when the cell is NaN or int() raises
ExtractRatingData(row) ==
    IF row.Rating.nan \/ ~row.Rating.parsable THEN None ELSE Some(row.Rating.value)

\* the CastMember rows of a new movie: the first 3 directors, empty names skipped
DirectorRows(row, movieId) ==
    LET names == IF IsBlank(row.Directors) THEN <<>>
                 ELSE SelectSeq(Take(row.Directors, 3), NonEmpty)
    IN  [k \in 1..Len(names) |-> [movie_id |-> movieId, name |-> names[k], role |-> "director"]]

\* Movie: imdb_id is unique, title is NOT NULL (the flush raises IntegrityError)
MovieInsertFails(data, ms) ==
    \/ IsNone(data.title)
    \/ \E k \in 1..Len(ms) : ms[k].imdb_id = data.imdb_id

\* UserRating.rating is NOT NULL (the commit raises IntegrityError)
RatingInsertFails(rating) == IsNone(rating)

\* the primary key the database gives the next row of a table
NextId(rows) == IF rows = <<>> THEN 1 ELSE 1 + rows[Len(rows)].id

\* db.query(Movie).filter(Movie.imdb_id == imdb_id).first()
ExistingMovie(ms, imdbId) == LET Same(m) == m.imdb_id = imdbId IN First(ms, Same)

\* the lookup before the insert of a rating left out
ExistingRatingNone(rs, movieId) == None

\* db.query(UserRating).filter(UserRating.movie_id == movie.id).first()
ExistingRating(rs, movieId) == LET Same(r) == r.movie_id = movieId IN First(rs, Same)

\* _process_single_row as one transaction: the Store <<movies, ratings, cast>>
\* after the row.  Every failure inside the try block ends in rollback().
ProcessRow(S, row) ==
    LET ms == S[1]
        rs == S[2]
        cs == S[3]
        imdbId == Strip(row.Const)
        existing == ExistingMovie(ms, imdbId)
        data == ExtractMovieData(row)
        isNew == IsNone(existing)
        movie == IF isNew THEN [id |-> NextId(ms)] @@ data ELSE Val(existing)
        ms2 == IF isNew THEN Append(ms, movie) ELSE ms
        cs2 == IF isNew THEN cs \o DirectorRows(row, movie.id) ELSE cs
        rating == ExtractRatingData(row)
        hasRating == ~IsNone(ExistingRating(rs, movie.id))
    IN  IF ~StartsWithTT(imdbId) THEN S
        ELSE IF isNew /\ MovieInsertFails(data, ms) THEN S
        ELSE IF hasRating THEN <<ms2, rs, cs2>>
        ELSE IF RatingInsertFails(rating) THEN S
        ELSE <<ms2,
               Append(rs, [id |-> NextId(rs), movie_id |-> movie.id, rating |-> Val(rating)]),
               cs2>>

\* the loop of import_csv_data over the rows of a file
RECURSIVE ImportRows(_, _)
ImportRows(S, rows) ==
    IF rows = <<>> THEN S ELSE ImportRows(ProcessRow(S, rows[1]), Tail(rows))

----------------------------------------------------------------------------
(* ScrapingStatus rows and CSVImporter._update_import_status *)

\* a new ScrapingStatus(status="pending", total_ratings=0, scraped_ratings=0)
PendingJob ==
    [status |-> "pending", total_ratings |-> 0, scraped_ratings |-> 0,
     current_movie |-> None, error_message |-> None]

IsActive(j) == j.status \in {"pending", "running"}

\* db.query(ScrapingStatus).filter(status.in_(["pending", "running"])).first()
ActiveJobs(js) == {k \in 1..Len(js) : IsActive(js[k])}

\* setattr for every keyword the row has
SetFields(rec, kw) == [k \in DOMAIN rec |-> IF k \in DOMAIN kw THEN kw[k] ELSE rec[k]]

\* _update_import_status: the row with the latest created_at gets the status
\* and the keywords; nothing happens when the table is empty
UpdateImportStatus(js, status, kw) ==
    IF js = <<>> THEN js
    ELSE [js EXCEPT ![Len(js)] = SetFields([@ EXCEPT !.status = status], kw)]

\* no keywords
NoKw == <<>>

\* the check of the required columns left out
ReadErrorExistsOnly(file) ==
    IF ~file.exists THEN Some("CSV file not found") ELSE None

\* _read_and_validate_csv: None with the error text, or the data frame
ReadError(file) ==
    IF ~file.exists THEN Some("CSV file not found")
    ELSE IF ~file.columns THEN Some("Missing required columns")
    ELSE None

----------------------------------------------------------------------------
(* State after construction *)

Importers == 1..NumImporters

EmptyFile == CsvFile(TRUE, TRUE, <<>>)

\* a CSVImporter and its session: the position in import_csv_data, the file,
\* the row index, and inside _process_single_row the row, the Movie object,
\* whether it is a pending insert, the rating found, and how the last row ended
IdleImporter ==
    [pc |-> "idle", file |-> EmptyFile, i |-> 0, row |-> RowA,
     movie |-> None, isNew |-> FALSE, hasRating |-> FALSE, result |-> "none"]

\* a POST /chat/message request: where it stands, its conversation, the
\* messages list sent to the LLM, the content blocks of the first response and
\* the index of the last block handled, final_response, the requests made to
\* the LLM, the content of the last 200 response, the tool results posted,
\* and the reply returned
IdleChat ==
    [pc |-> "idle", conv |-> 0, messages |-> <<>>, blocks |-> <<>>, idx |-> 0,
     final |-> <<>>, requests |-> 0, last |-> <<>>, sent |-> <<>>, reply |-> <<>>]

Handlers == 1..NumHandlers

\* a request to a scraping endpoint: which one, where it stands, and the row
\* its query for an active job returned
IdleHandler == [op |-> "none", pc |-> "idle", seen |-> None]

Init ==
    /\ movies = <<>>
    /\ ratings = <<>>
    /\ cast = <<>>
    /\ posters = <<>>
    /\ prefs = <<>>
    /\ jobs = <<>>
    /\ chatMessages = <<>>
    /\ imp = [s \in Importers |-> IdleImporter]
    /\ req = [h \in Handlers |-> IdleHandler]
    /\ ret = None
    /\ chat = IdleChat

----------------------------------------------------------------------------
(* Sequential import: POST /import-csv and the background task, one        *)
(* handler or one row per step                                             *)

\* POST /import-csv as one step: 400 when a job is active or the file is not
\* there, else a pending row and the background task
ImportCsv(file, existsAtRequest) ==
    /\ imp[1].pc \in {"idle", "done"}
    /\ Len(jobs) < MaxRuns
    /\ ActiveJobs(jobs) = {}
    /\ existsAtRequest
    /\ jobs' = Append(jobs, PendingJob)
    /\ imp' = [imp EXCEPT ![1] = [IdleImporter EXCEPT !.pc = "scheduled", !.file = file]]
    /\ UNCHANGED <<movies, ratings, cast, posters, prefs, chatMessages, req, ret, chat>>

\* import_csv_data up to the loop: status running, the file read and validated,
\* total_ratings set; a file-level error records failed and ends the run
ImportBegin(s) ==
    /\ imp[s].pc = "scheduled"
    /\ LET err == ReadError(imp[s].file)
           running == UpdateImportStatus(jobs, "running", NoKw)
       IN  IF ~IsNone(err)
           THEN /\ jobs' = UpdateImportStatus(running, "failed", [error_message |-> err])
                /\ imp' = [imp EXCEPT ![s].pc = "done"]
           ELSE /\ jobs' = UpdateImportStatus(running, "running",
                                              [total_ratings |-> Len(imp[s].file.rows)])
                /\ imp' = [imp EXCEPT ![s].pc = "rows"]
    /\ UNCHANGED <<movies, ratings, cast, posters, prefs, chatMessages, req, ret, chat>>

\* one iteration of the loop: the row, then the progress written to the job
ImportRow(s) ==
    /\ imp[s].pc = "rows"
    /\ imp[s].i < Len(imp[s].file.rows)
    /\ LET row == imp[s].file.rows[imp[s].i + 1]
           S == ProcessRow(store, row)
       IN  /\ movies' = S[1]
           /\ ratings' = S[2]
           /\ cast' = S[3]
           /\ jobs' = UpdateImportStatus(jobs, "running",
                         [scraped_ratings |-> imp[s].i + 1, current_movie |-> row.Title])
    /\ imp' = [imp EXCEPT ![s].i = @ + 1]
    /\ UNCHANGED <<posters, prefs, chatMessages, req, ret, chat>>

\* after the loop: status completed
ImportFinish(s) ==
    /\ imp[s].pc = "rows"
    /\ imp[s].i = Len(imp[s].file.rows)
    /\ jobs' = UpdateImportStatus(jobs, "completed", NoKw)
    /\ imp' = [imp EXCEPT ![s].pc = "done"]
    /\ UNCHANGED <<movies, ratings, cast, posters, prefs, chatMessages, req, ret, chat>>

NextImport ==
    \/ \E file \in CsvFiles : ImportCsv(file, TRUE)
    \/ ImportBegin(1)
    \/ ImportRow(1)
    \/ ImportFinish(1)

SpecImport == Init /\ [][NextImport]_vars

----------------------------------------------------------------------------
(* Concurrent import runs: _process_single_row, one database step per      *)
(* action.  A session reads committed rows and its own pending rows; its   *)
(* pending rows reach the Store at commit() and vanish at rollback().      *)

\* rollback() in the except block (or the early return): the row is over
RowOver(s, how) == [imp EXCEPT ![s] = [IdleImporter EXCEPT !.result = how]]

\* the Movie rows another session has flushed and not yet committed
PendingMovies(s) ==
    {Val(imp[t].movie) : t \in {u \in Importers \ {s} : imp[u].isNew}}

Ids(rows) == {rows[k].id : k \in 1..Len(rows)}

\* the primary key of a flushed Movie: a key no committed or pending row holds
\* (keys are only compared for equality, so the least free key stands for it)
FreshMovieId(s) ==
    LET used == Ids(movies) \cup {m.id : m \in PendingMovies(s)}
    IN  CHOOSE k \in 1..(Cardinality(used) + 1) :
            k \notin used /\ \A j \in 1..(k - 1) : j \in used

\* commit() in the place of flush(): the Movie is committed before its rating
FlushAsCommit(ms, movie) == Append(ms, movie)

\* what db.flush() of a new Movie makes visible to other sessions: nothing
FlushedMovies(ms, movie) == ms

\* lines 84-90: the id check and the query for the movie
RowBegin(s, row) ==
    /\ imp[s].pc = "idle"
    /\ LET imdbId == Strip(row.Const)
           existing == ExistingMovie(movies, imdbId)
       IN  imp' = IF ~StartsWithTT(imdbId) THEN RowOver(s, "skipped")
                  ELSE IF IsNone(existing)
                  THEN [imp EXCEPT ![s] = [IdleImporter EXCEPT !.pc = "flush", !.row = row]]
                  ELSE [imp EXCEPT ![s] = [IdleImporter EXCEPT !.pc = "rating", !.row = row,
                                                               !.movie = existing]]
    /\ UNCHANGED <<movies, ratings, cast, posters, prefs, jobs, chatMessages, req, ret, chat>>

\* lines 92-111: the new Movie is added and flushed; the insert raises when the
\* row breaks a constraint or waits on another session's insert of the same id
FlushMovie(s) ==
    /\ imp[s].pc = "flush"
    /\ LET data == ExtractMovieData(imp[s].row)
           movie == [id |-> FreshMovieId(s)] @@ data
           locked == \E m \in PendingMovies(s) : m.imdb_id = data.imdb_id
       IN  IF locked \/ MovieInsertFails(data, movies)
           THEN /\ imp' = RowOver(s, "rolled_back")
                /\ movies' = movies
           ELSE /\ imp' = [imp EXCEPT ![s].pc = "rating", ![s].movie = Some(movie),
                                      ![s].isNew = TRUE]
                /\ movies' = FlushedMovies(movies, movie)
    /\ UNCHANGED <<ratings, cast, posters, prefs, jobs, chatMessages, req, ret, chat>>

\* line 116: the query for the rating of the movie
LookupRating(s) ==
    /\ imp[s].pc = "rating"
    /\ imp' = [imp EXCEPT ![s].pc = "commit",
                          ![s].hasRating = ~IsNone(ExistingRating(ratings, Val(imp[s].movie).id))]
    /\ UNCHANGED <<movies, ratings, cast, posters, prefs, jobs, chatMessages, req, ret, chat>>

\* lines 118-125: the UserRating is added when none was found, then commit()
CommitRow(s) ==
    /\ imp[s].pc = "commit"
    /\ LET movie == Val(imp[s].movie)
           rating == ExtractRatingData(imp[s].row)
           pending == imp[s].isNew /\ movie \notin {movies[k] : k \in 1..Len(movies)}
       IN  IF ~imp[s].hasRating /\ RatingInsertFails(rating)
           THEN /\ imp' = RowOver(s, "rolled_back")
                /\ UNCHANGED <<movies, ratings, cast>>
           ELSE /\ imp' = RowOver(s, "committed")
                /\ movies' = IF pending THEN Append(movies, movie) ELSE movies
                /\ cast' = IF imp[s].isNew THEN cast \o DirectorRows(imp[s].row, movie.id)
                           ELSE cast
                /\ ratings' = IF imp[s].hasRating THEN ratings
                              ELSE Append(ratings, [id |-> NextId(ratings),
                                                    movie_id |-> movie.id,
                                                    rating |-> Val(rating)])
    /\ UNCHANGED <<posters, prefs, jobs, chatMessages, req, ret, chat>>

\* the database refuses the commit (connection lost, lock timeout): rollback()
CommitError(s) ==
    /\ imp[s].pc = "commit"
    /\ imp' = RowOver(s, "rolled_back")
    /\ UNCHANGED <<movies, ratings, cast, posters, prefs, jobs, chatMessages, req, ret, chat>>

NextConc ==
    \E s \in Importers :
        \/ \E row \in CsvRows : RowBegin(s, row)
        \/ FlushMovie(s)
        \/ LookupRating(s)
        \/ CommitRow(s)
        \/ CommitError(s)

SpecConc == Init /\ [][NextConc]_vars

----------------------------------------------------------------------------
(* Claims about the importer *)

RatedMovieIds == {ratings[k].movie_id : k \in 1..Len(ratings)}

IsPrefix(a, b) == Len(a) <= Len(b) /\ SubSeq(b, 1, Len(a)) = a

\* C3: CSV import is idempotent: when a run over a file has ended, importing
\* the same file again creates no Movie, UserRating or CastMember row and
\* leaves every existing row as it is.
C3_ImportIdempotent ==
    (imp[1].pc = "done" /\ IsNone(ReadError(imp[1].file)))
        => ImportRows(store, imp[1].file.rows) = store

\* a run over a file that holds a row twice (the second under a padded id) and
\* a second movie has ended, with both movies in the Store
C3_Witness ==
    /\ imp[1].pc = "done"
    /\ imp[1].file.rows = <<RowA, RowA2, RowB>> \/ imp[1].file.rows = <<RowA, RowB>>
    /\ Len(movies) = 2
    /\ Len(ratings) = 2

\* C4: under every interleaving of import runs no two UserRating rows have
\* the same movie_id.
C4_OneRatingPerMovie ==
    \A a, b \in 1..Len(ratings) : ratings[a].movie_id = ratings[b].movie_id => a = b

\* two runs process the same movie at once: one has committed it while the
\* other, which found no such movie, is about to insert it
C4_Witness ==
    \E s \in Importers :
        /\ imp[s].pc = "flush"
        /\ \E k \in 1..Len(movies) :
              /\ movies[k].imdb_id = Strip(imp[s].row.Const)
              /\ movies[k].id \in RatedMovieIds

\* the rows a committed transaction of _process_single_row adds for one new
\* movie: the Movie, its director rows and its UserRating
CommitsOneMovie ==
    /\ Len(movies') = Len(movies) + 1
    /\ IsPrefix(movies, movies')
    /\ Len(ratings') = Len(ratings) + 1
    /\ IsPrefix(ratings, ratings')
    /\ IsPrefix(cast, cast')
    /\ LET m == movies'[Len(movies')]
       IN  /\ ratings'[Len(ratings')].movie_id = m.id
           /\ \A k \in (Len(cast) + 1)..Len(cast') :
                 cast'[k].movie_id = m.id /\ cast'[k].role = "director"

RowFails(row) ==
    \/ ~StartsWithTT(Strip(row.Const))
    \/ IsNone(row.Title)
    \/ row.Rating.nan
    \/ ~row.Rating.parsable

\* C5: processing one CSV row is atomic.  A step of a run commits nothing or
\* commits one Movie with its director rows and its UserRating together; the
\* steps of a row that fails (invalid id, missing title, missing or invalid
\* rating, refused commit) commit nothing and keep the rows committed before;
\* so every Movie in the Store has a UserRating.
C5_RowAtomic ==
    /\ [](\A k \in 1..Len(movies) : movies[k].id \in RatedMovieIds)
    /\ [][/\ store' = store \/ CommitsOneMovie
          /\ \A s \in Importers :
                (imp'[s] # imp[s] /\ imp[s].pc # "idle"
                    /\ (RowFails(imp[s].row) \/ imp'[s].result = "rolled_back"))
                    => store' = store]_vars

\* a row with a pending Movie was rolled back while the Store holds a movie
\* that was committed with its two director rows and its rating
C5_Witness ==
    /\ \E s \in Importers : imp[s].result = "rolled_back"
    /\ \E k \in 1..Len(movies) : movies[k].title = Some("B")
    /\ Len(cast) >= 2
    /\ Len(ratings) = Len(movies)

----------------------------------------------------------------------------
(* The scraping endpoints under concurrent requests: the query for an      *)
(* active job and the write that follows it are separate database steps    *)

AdmissionOps == {"start", "import-csv", "scrape-posters"}

\* the files of the job specification
JobFiles ==
    {CsvFile(TRUE, TRUE, <<RowA>>), CsvFile(FALSE, TRUE, <<RowA>>)}

\* the first active row, as the query of every endpoint returns it
FirstActive(js) ==
    IF ActiveJobs(js) = {} THEN None
    ELSE Some(CHOOSE k \in ActiveJobs(js) : \A m \in ActiveJobs(js) : k <= m)

\* the query at the top of start_scraping, import_csv_data,
\* scrape_missing_posters and stop_scraping
CheckActive(h, op) ==
    /\ req[h].pc = "idle"
    /\ req' = [req EXCEPT ![h] = [op |-> op, pc |-> "checked", seen |-> FirstActive(jobs)]]
    /\ UNCHANGED <<movies, ratings, cast, posters, prefs, jobs, chatMessages, imp, ret, chat>>

\* start_scraping after the query: 400, or a pending row (no task is started)
StartScraping(h) ==
    /\ req[h].pc = "checked"
    /\ req[h].op = "start"
    /\ Len(jobs) < MaxJobs
    /\ jobs' = IF IsNone(req[h].seen) THEN Append(jobs, PendingJob) ELSE jobs
    /\ req' = [req EXCEPT ![h] = IdleHandler]
    /\ UNCHANGED <<movies, ratings, cast, posters, prefs, chatMessages, imp, ret, chat>>

\* import_csv_data after the query: 400, or a pending row and the background
\* task run_import_with_posters
ImportCsvData(h, s, file) ==
    /\ req[h].pc = "checked"
    /\ req[h].op = "import-csv"
    /\ Len(jobs) < MaxJobs
    /\ imp[s].pc \in {"idle", "done"}
    /\ IF IsNone(req[h].seen)
       THEN /\ jobs' = Append(jobs, PendingJob)
            /\ imp' = [imp EXCEPT ![s] = [IdleImporter EXCEPT !.pc = "scheduled",
                                                              !.file = file]]
       ELSE UNCHANGED <<jobs, imp>>
    /\ req' = [req EXCEPT ![h] = IdleHandler]
    /\ UNCHANGED <<movies, ratings, cast, posters, prefs, chatMessages, ret, chat>>

\* scrape_missing_posters after the query: 400, or a pending row; the task
\* run_poster_scraping prints that scraping is disabled and returns
ScrapeMissingPosters(h) ==
    /\ req[h].pc = "checked"
    /\ req[h].op = "scrape-posters"
    /\ Len(jobs) < MaxJobs
    /\ jobs' = IF IsNone(req[h].seen) THEN Append(jobs, PendingJob) ELSE jobs
    /\ req' = [req EXCEPT ![h] = IdleHandler]
    /\ UNCHANGED <<movies, ratings, cast, posters, prefs, chatMessages, imp, ret, chat>>

\* stop_scraping after the query: 400, or the row found is set to stopped
StopScraping(h) ==
    /\ req[h].pc = "checked"
    /\ req[h].op = "stop"
    /\ jobs' = IF IsNone(req[h].seen) THEN jobs
               ELSE [jobs EXCEPT ![Val(req[h].seen)] =
                        [@ EXCEPT !.status = "stopped",
                                  !.error_message = Some("Stopped by user")]]
    /\ req' = [req EXCEPT ![h] = IdleHandler]
    /\ UNCHANGED <<movies, ratings, cast, posters, prefs, chatMessages, imp, ret, chat>>

NextJobs ==
    \/ \E h \in Handlers, op \in AdmissionOps \cup {"stop"} : CheckActive(h, op)
    \/ \E h \in Handlers : StartScraping(h)
    \/ \E h \in Handlers, s \in Importers, file \in JobFiles : ImportCsvData(h, s, file)
    \/ \E h \in Handlers : ScrapeMissingPosters(h)
    \/ \E h \in Handlers : StopScraping(h)
    \/ \E s \in Importers : ImportBegin(s)
    \/ \E s \in Importers : ImportRow(s)
    \/ \E s \in Importers : ImportFinish(s)

SpecJobs == Init /\ [][NextJobs]_vars

\* C2: in every reachable state at most one job record has status pending or
\* running.
C2_OneActiveJob == Cardinality(ActiveJobs(jobs)) <= 1

----------------------------------------------------------------------------
(* PreferenceAnalyzer: the analyses over the Store                         *)

AnalysisKinds == {"genres", "years", "runtime", "cast"}

\* query(Movie, UserRating).join(UserRating): one row per rating of a movie,
\* in the order of the Movie table
RECURSIVE JoinRatings(_, _)
JoinRatings(ms, rs) ==
    IF ms = <<>> THEN <<>>
    ELSE LET m == ms[1]
             Mine(r) == r.movie_id = m.id
             mine == SelectSeq(rs, Mine)
         IN  [k \in 1..Len(mine) |-> [movie |-> m, rating |-> mine[k].rating]]
                \o JoinRatings(Tail(ms), rs)

\* the keys of a sequence of [key, rating, title] entries, in first-seen
\* order (the insertion order of a dict)
RECURSIVE FirstSeen(_)
FirstSeen(es) ==
    IF es = <<>> THEN <<>>
    ELSE LET before == FirstSeen(SubSeq(es, 1, Len(es) - 1))
             k == es[Len(es)].key
         IN  IF \E i \in 1..Len(before) : before[i] = k THEN before ELSE Append(before, k)

\* the stats dict: per key the ratings and titles appended in order
Stats(es) ==
    LET keys == FirstSeen(es)
    IN  [i \in 1..Len(keys) |->
            LET Mine(e) == e.key = keys[i]
                mine == SelectSeq(es, Mine)
            IN  [key |-> keys[i],
                 ratings |-> [k \in 1..Len(mine) |-> mine[k].rating],
                 titles |-> [k \in 1..Len(mine) |-> mine[k].title]]]

\* round(sum / n, 2) in hundredths; no tie arises for n < 16
Round2(sum, n) == (200 * sum + n) \div (2 * n)
\* round(sum / n, 1) in tenths
Round1(sum, n) == (20 * sum + n) \div (2 * n)
\* round(np.mean(ratings), 2)
MeanRating(rs) == Round2(SeqSum(rs), Len(rs))
\* round((count / total) * 100, 2)
Percentage(count, total) == Round2(100 * count, total)

\* list.sort(key=..., reverse=True): descending by key, equal keys keep
\* their order
SortDesc(items, keys) ==
    LET Rank(i) == 1 + Cardinality({j \in 1..Len(items) :
                        keys[j] > keys[i] \/ (keys[j] = keys[i] /\ j < i)})
    IN  [r \in 1..Len(items) |-> items[CHOOSE i \in 1..Len(items) : Rank(i) = r]]

\* s[::-1]
Reverse(s) == [k \in 1..Len(s) |-> s[Len(s) + 1 - k]]
\* s[-n:]
LastN(s, n) == SubSeq(s, Max(1, Len(s) - n + 1), Len(s))

\* an insights sentence: its wording and the values formatted into it
Insight(text, name, avg, n, m) == [text |-> text, name |-> name, avg |-> avg, n |-> n, m |-> m]
NoData == Insight("No data available", "", 0, 0, 0)

\* flatten: one entry per joined row and genre of its movie
RECURSIVE GenreEntries(_)
GenreEntries(results) ==
    IF results = <<>> THEN <<>>
    ELSE LET row == results[1]
             gs == Val(row.movie.genres)
         IN  [k \in 1..Len(gs) |-> [key |-> gs[k], rating |-> row.rating,
                                   title |-> row.movie.title]]
                \o GenreEntries(Tail(results))

HasGenres(row) == ~IsNone(row.movie.genres)
HasYear(row) == ~IsNone(row.movie.year)
HasRuntime(row) == ~IsNone(row.movie.runtime_minutes)
HasDirector(row) == ~IsNone(row.movie.director)

\* the joined rows an analysis kind reads
Results(kind, S) ==
    LET joined == JoinRatings(S[1], S[2])
    IN  CASE kind = "genres" -> SelectSeq(joined, HasGenres)
          [] kind = "years" -> SelectSeq(joined, HasYear)
          [] kind = "runtime" -> SelectSeq(joined, HasRuntime)
          [] OTHER -> SelectSeq(joined, HasDirector)

\* analyze_genres past the cache check
GenreAnalysis(S) ==
    LET results == Results("genres", S)
        stats == Stats(GenreEntries(results))
        total == Len(results)
        data == [i \in 1..Len(stats) |->
                    [genre |-> stats[i].key,
                     count |-> Len(stats[i].ratings),
                     average_rating |-> MeanRating(stats[i].ratings),
                     percentage |-> Percentage(Len(stats[i].ratings), total)]]
        sorted == SortDesc(data, [i \in 1..Len(data) |-> data[i].average_rating])
    IN  IF results = <<>>
        THEN [favorite_genres |-> <<>>, least_favorite_genres |-> <<>>,
              genre_distribution |-> {}, insights |-> NoData]
        ELSE [favorite_genres |-> Take(sorted, 5),
              least_favorite_genres |-> Reverse(LastN(sorted, 5)),
              genre_distribution |->
                  {<<stats[i].key, Len(stats[i].ratings)>> : i \in 1..Len(stats)},
              insights |->
                  IF sorted = <<>> THEN Insight("No genre data available.", "", 0, 0, 0)
                  ELSE Insight(IF Len(sorted) > 5 THEN "diverse" ELSE "smaller set",
                               sorted[1].genre, sorted[1].average_rating,
                               total, Len(sorted))]

\* the per-key rows of the year, decade and runtime tables
KeyData(stats, total) ==
    [i \in 1..Len(stats) |->
        [key |-> stats[i].key,
         count |-> Len(stats[i].ratings),
         average_rating |-> MeanRating(stats[i].ratings),
         percentage |-> Percentage(Len(stats[i].ratings), total)]]

YearEntries(results) ==
    [k \in 1..Len(results) |->
        [key |-> Val(results[k].movie.year), rating |-> results[k].rating,
         title |-> results[k].movie.title]]

\* decade = (movie.year // 10) * 10
DecadeEntries(results) ==
    [k \in 1..Len(results) |->
        [key |-> (Val(results[k].movie.year) \div 10) * 10, rating |-> results[k].rating,
         title |-> results[k].movie.title]]

\* analyze_years past the cache check
YearAnalysis(S) ==
    LET results == Results("years", S)
        total == Len(results)
        years == KeyData(Stats(YearEntries(results)), total)
        year_data == SortDesc(years, [i \in 1..Len(years) |-> 0 - years[i].key])
        decades == KeyData(Stats(DecadeEntries(results)), total)
        decade_data == SortDesc(decades, [i \in 1..Len(decades) |-> decades[i].average_rating])
        top3 == Take(decade_data, 3)
    IN  IF results = <<>>
        THEN [year_distribution |-> <<>>, decade_preferences |-> <<>>,
              favorite_decades |-> <<>>, insights |-> NoData]
        ELSE [year_distribution |->
                  [i \in 1..Len(year_data) |->
                      [year |-> year_data[i].key, count |-> year_data[i].count,
                       average_rating |-> year_data[i].average_rating]],
              decade_preferences |-> decade_data,
              favorite_decades |-> [i \in 1..Len(top3) |-> top3[i].key],
              insights |-> Insight("favorite decade", "", decade_data[1].average_rating,
                                   decade_data[1].key, decade_data[1].percentage)]

\* runtime_categories, in the order of the dict
RuntimeCategories ==
    <<[name |-> "Short (< 90 min)", lo |-> 0, hi |-> 89],
      [name |-> "Standard (90-119 min)", lo |-> 90, hi |-> 119],
      [name |-> "Long (120-149 min)", lo |-> 120, hi |-> 149],
      [name |-> "Epic (150+ min)", lo |-> 150, hi |-> 999]>>

\* the ratings of the joined rows whose runtime lies in category c
CategoryRatings(results, c) ==
    LET In(row) == /\ c.lo <= Val(row.movie.runtime_minutes)
                   /\ Val(row.movie.runtime_minutes) <= c.hi
        mine == SelectSeq(results, In)
    IN  [k \in 1..Len(mine) |-> mine[k].rating]

\* analyze_runtime past the cache check
RuntimeAnalysis(S) ==
    LET results == Results("runtime", S)
        total == Len(results)
        runtimes == [k \in 1..total |-> Val(results[k].movie.runtime_minutes)]
        all == [c \in 1..Len(RuntimeCategories) |->
                   LET rs == CategoryRatings(results, RuntimeCategories[c])
                   IN  [runtime_range |-> RuntimeCategories[c].name,
                        count |-> Len(rs),
                        average_rating |-> IF rs = <<>> THEN 0 ELSE MeanRating(rs),
                        percentage |-> IF total = 0 THEN 0 ELSE Percentage(Len(rs), total)]]
        Counted(d) == d.count > 0
        data == SelectSeq(all, Counted)
        runtime_data == SortDesc(data, [i \in 1..Len(data) |-> data[i].average_rating])
        average_runtime == Round1(SeqSum(runtimes), total)
    IN  IF results = <<>>
        THEN [runtime_distribution |-> <<>>, preferred_length |-> "Unknown",
              average_runtime |-> 0, insights |-> NoData]
        ELSE [runtime_distribution |-> runtime_data,
              preferred_length |-> IF runtime_data = <<>> THEN "Unknown"
                                   ELSE runtime_data[1].runtime_range,
              average_runtime |-> average_runtime,
              insights |->
                  IF runtime_data = <<>>
                  THEN Insight("No runtime data available.", "", 0, 0, 0)
                  ELSE Insight("prefer", runtime_data[1].runtime_range,
                               runtime_data[1].average_rating, average_runtime, 0)]

\* query(CastMember, UserRating, Movie) ... filter(role == "actor"): one entry
\* per actor row and rating of its movie
RECURSIVE ActorEntries(_, _)
ActorEntries(cs, joined) ==
    IF cs = <<>> THEN <<>>
    ELSE LET c == cs[1]
             Mine(row) == row.movie.id = c.movie_id
             mine == IF c.role = "actor" THEN SelectSeq(joined, Mine) ELSE <<>>
         IN  [k \in 1..Len(mine) |-> [key |-> c.name, rating |-> mine[k].rating,
                                     title |-> mine[k].movie.title]]
                \o ActorEntries(Tail(cs), joined)

DirectorEntries(results) ==
    [k \in 1..Len(results) |->
        [key |-> Val(results[k].movie.director), rating |-> results[k].rating,
         title |-> results[k].movie.title]]

\* the people with at least 2 rated movies, best average first, at most 10
FavoritePeople(es) ==
    LET stats == Stats(es)
        Twice(st) == Len(st.ratings) >= 2
        kept == SelectSeq(stats, Twice)
        data == [i \in 1..Len(kept) |->
                    [name |-> kept[i].key,
                     count |-> Len(kept[i].ratings),
                     average_rating |-> MeanRating(kept[i].ratings),
                     movies |-> Take(kept[i].titles, 5)]]
    IN  Take(SortDesc(data, [i \in 1..Len(data) |->
                                data[i].average_rating * 1000 + data[i].count]), 10)

\* _generate_cast_insights
CastInsights(people, role) ==
    IF people = <<>> THEN Insight("No data available.", role, 0, 0, 0)
    ELSE Insight("favorite", people[1].name, people[1].average_rating, people[1].count, 0)

\* analyze_cast past the cache check
CastAnalysis(S) ==
    LET actors == FavoritePeople(ActorEntries(S[3], JoinRatings(S[1], S[2])))
        directors == FavoritePeople(DirectorEntries(Results("cast", S)))
    IN  [favorite_actors |-> actors,
         favorite_directors |-> directors,
         actor_insights |-> CastInsights(actors, "actors"),
         director_insights |-> CastInsights(directors, "directors")]

\* the result an analysis computes from the Store
Analysis(kind, S) ==
    CASE kind = "genres" -> GenreAnalysis(S)
      [] kind = "years" -> YearAnalysis(S)
      [] kind = "runtime" -> RuntimeAnalysis(S)
      [] OTHER -> CastAnalysis(S)

\* the early return "No data available": the result is not saved
ReturnsUnsaved(kind, S) == kind # "cast" /\ Results(kind, S) = <<>>

----------------------------------------------------------------------------
(* The analysis cache (UserPreferences) next to imports and reset          *)

\* query(UserPreferences).filter(analysis_type == kind).first(): its payload
Cached(ps, kind) ==
    LET Same(p) == p.analysis_type = kind
        hit == First(ps, Same)
    IN  IF IsNone(hit) THEN None ELSE Some(Val(hit).analysis_data)

\* a save that adds a row where it should update the one there
SaveAnalysisAppend(ps, kind, data) ==
    Append(ps, [analysis_type |-> kind, analysis_data |-> data])

\* _save_analysis: update the first row of the kind, or add one
SaveAnalysis(ps, kind, data) ==
    IF \E i \in 1..Len(ps) : ps[i].analysis_type = kind
    THEN LET i == CHOOSE k \in 1..Len(ps) :
                    /\ ps[k].analysis_type = kind
                    /\ \A m \in 1..(k - 1) : ps[m].analysis_type # kind
         IN  [ps EXCEPT ![i].analysis_data = data]
    ELSE Append(ps, [analysis_type |-> kind, analysis_data |-> data])

\* analyze_genres / analyze_years / analyze_runtime / analyze_cast, called by
\* GET /analysis/{kind} (force FALSE) and POST /analysis/regenerate/{kind}
\* (force TRUE); ret holds the response until it is delivered
Analyze(kind, force) ==
    /\ IsNone(ret)
    /\ LET cached == Cached(prefs, kind)
           fresh == Analysis(kind, store)
       IN  IF ~force /\ ~IsNone(cached)
           THEN /\ ret' = Some([kind |-> kind, force |-> force, payload |-> Val(cached)])
                /\ prefs' = prefs
           ELSE IF ReturnsUnsaved(kind, store)
           THEN /\ ret' = Some([kind |-> kind, force |-> force, payload |-> fresh])
                /\ prefs' = prefs
           ELSE /\ ret' = Some([kind |-> kind, force |-> force, payload |-> fresh])
                /\ prefs' = SaveAnalysis(prefs, kind, fresh)
    /\ UNCHANGED <<movies, ratings, cast, posters, jobs, chatMessages, imp, req, chat>>

\* the response leaves the server
Deliver ==
    /\ ~IsNone(ret)
    /\ ret' = None
    /\ UNCHANGED <<movies, ratings, cast, posters, prefs, jobs, chatMessages, imp, req, chat>>

\* a reset that forgets the PosterAnalysis table
DeleteAllButPosters ==
    /\ movies' = <<>>
    /\ ratings' = <<>>
    /\ cast' = <<>>
    /\ posters' = posters
    /\ prefs' = <<>>
    /\ jobs' = <<>>

\* the six deletes of reset_scraping_data and their commit
DeleteAllData ==
    /\ movies' = <<>>
    /\ ratings' = <<>>
    /\ cast' = <<>>
    /\ posters' = <<>>
    /\ prefs' = <<>>
    /\ jobs' = <<>>

\* DELETE /reset: refused (400) while a job is pending or running, else every
\* table is emptied
ResetScrapingData ==
    /\ ActiveJobs(jobs) = {}
    /\ DeleteAllData
    /\ UNCHANGED <<chatMessages, imp, req, ret, chat>>

\* the files of the cache specification
CacheFiles ==
    {CsvFile(TRUE, TRUE, <<RowA>>), CsvFile(TRUE, TRUE, <<RowB>>),
     CsvFile(TRUE, TRUE, <<RowA2>>)}

NextCache ==
    \/ \E file \in CacheFiles : ImportCsv(file, TRUE)
    \/ ImportBegin(1)
    \/ ImportRow(1)
    \/ ImportFinish(1)
    \/ \E kind \in AnalysisKinds, force \in BOOLEAN : Analyze(kind, force)
    \/ Deliver
    \/ ResetScrapingData

SpecCache == Init /\ [][NextCache]_vars

\* a step that serves an analysis request
Served == IsNone(ret) /\ ~IsNone(ret')

\* an unforced call that finds a cached payload returns it and writes nothing
CacheHit ==
    LET r == Val(ret')
        before == Cached(prefs, r.kind)
    IN  (~r.force /\ ~IsNone(before)) => (r.payload = Val(before) /\ prefs' = prefs)

\* C1: once a result is cached, every unforced analyze(kind) returns the
\* cached payload unchanged, whatever was imported in between; a forced
\* analyze(kind) returns the result computed from the current Store and
\* replaces the cached payload, except that for genres, years and runtime
\* with no rated movie carrying the attribute it returns the "No data
\* available" result and writes nothing to the cache.
C1_CacheSemantics ==
    [][Served =>
        /\ CacheHit
        /\ LET r == Val(ret')
           IN  r.force =>
                 /\ r.payload = Analysis(r.kind, store)
                 /\ IF ReturnsUnsaved(r.kind, store)
                    THEN prefs' = prefs
                    ELSE Cached(prefs', r.kind) = Some(r.payload)]_vars

\* C1 as stated: every forced call replaces the cached payload
C1_ForcedAlwaysCached ==
    [][Served =>
        /\ CacheHit
        /\ LET r == Val(ret')
           IN  r.force =>
                 /\ r.payload = Analysis(r.kind, store)
                 /\ Cached(prefs', r.kind) = Some(r.payload)]_vars

\* a forced genres call has replaced the cache with a result over rated
\* movies while the cache of another kind still holds a payload that the
\* imports since have made stale
C1_Witness ==
    /\ ~IsNone(ret)
    /\ Val(ret).force
    /\ Val(ret).kind = "genres"
    /\ Val(ret).payload.favorite_genres # <<>>
    /\ Cached(prefs, "genres") = Some(Val(ret).payload)
    /\ \E k \in AnalysisKinds \ {"genres"} :
          /\ ~IsNone(Cached(prefs, k))
          /\ Val(Cached(prefs, k)) # Analysis(k, store)

----------------------------------------------------------------------------
(* The chat assistant: POST /chat/message and get_chat_response            *)

\* the iteration bound the specification gives for the assistant loop
IterationBound == 5

\* content blocks of an LLM response; text is a sequence of characters
TextBlock(t) == [type |-> "text", text |-> t, name |-> "", input |-> {}]
ToolUse(name, input) == [type |-> "tool_use", text |-> <<>>, name |-> name, input |-> input]

\* tool_input["..."] of each tool of execute_mcp_tool
RequiredArgs ==
    [search_movies |-> {"query"}, get_movie_details |-> {"identifier"},
     filter_movies |-> {}, get_movie_stats |-> {},
     get_cast_member_movies |-> {"name"}, find_similar_movies |-> {"movie_identifier"}]

\* a raise inside the tool escaping execute_mcp_tool
ExecuteMcpToolRaises(name, input, dbOk) ==
    LET fails == \/ name \notin DOMAIN RequiredArgs
                 \/ ~(RequiredArgs[name] \subseteq input)
                 \/ ~dbOk
    IN  [error |-> fails, raised |-> fails]

\* execute_mcp_tool: {"error": ...} for an unknown tool, a missing argument
\* (KeyError) or a storage error; it never raises
ExecuteMcpTool(name, input, dbOk) ==
    IF name \notin DOMAIN RequiredArgs THEN [error |-> TRUE, raised |-> FALSE]
    ELSE IF ~(RequiredArgs[name] \subseteq input) THEN [error |-> TRUE, raised |-> FALSE]
    ELSE IF ~dbOk THEN [error |-> TRUE, raised |-> FALSE]
    ELSE [error |-> FALSE, raised |-> FALSE]

ToolOk == ToolUse("search_movies", {"query"})
ToolUnknown == ToolUse("recommend_movies", {})
ToolMissingArg == ToolUse("get_movie_details", {})
TextT == TextBlock(<<"T">>)
TextEmpty == TextBlock(<<>>)

IsToolUse(b) == b.type = "tool_use"
\* the tool invocations of a response
ToolUses(content) == SelectSeq(content, IsToolUse)

\* the responses of the LLM to the first request of a turn
FirstContents ==
    SeqsUpTo({TextT, ToolOk}, MaxBlocks)
        \cup {<<TextEmpty>>, <<ToolUnknown>>, <<ToolOk, ToolUnknown>>,
              <<ToolMissingArg, ToolOk>>}

\* a response of IterationBound tool invocations
BurstContents == {[k \in 1..n |-> ToolOk] : n \in 1..IterationBound}

\* the responses of the LLM to a follow-up request
FollowContents == {<<TextT>>, <<ToolOk>>}

\* what a request to the LLM can come to: httpx raises, a status other than
\* 200, or 200 with content blocks
Outcomes(contents) ==
    {[status |-> "raise", content |-> <<>>], [status |-> "error", content |-> <<>>]}
        \cup {[status |-> "ok", content |-> c] : c \in contents}

ErrorText == <<"Error executing tool">>
CouldNotProcess == <<"I apologize, but I couldn't process your request properly.">>
CouldNotGenerate == <<"I apologize, but I couldn't generate a response.">>

\* the text of the text blocks of a follow-up response, concatenated
RECURSIVE TextOf(_)
TextOf(content) ==
    IF content = <<>> THEN <<>>
    ELSE (IF content[1].type = "text" THEN content[1].text ELSE <<>>) \o TextOf(Tail(content))

StoredMessage(role, content) == [role |-> role, content |-> content]
LlmMessage(role, type, ref) == [role |-> role, type |-> type, ref |-> ref]

\* user messages stored in all conversations
RECURSIVE UserMessages(_)
UserMessages(convs) ==
    IF convs = <<>> THEN 0
    ELSE LET IsUser(m) == m.role = "user"
         IN  Len(SelectSeq(convs[1], IsUser)) + UserMessages(Tail(convs))

\* send_chat_message up to the first request to the LLM.  conv 0 is a request
\* without conversation_id; an unknown id raises 404 inside the try block and
\* leaves as HTTP 500.  The user message is committed before the LLM is
\* called.  (CLAUDE_API_KEY is set.)
SendChatMessage(conv) ==
    /\ chat.pc \in {"idle", "replied", "raised"}
    /\ UserMessages(chatMessages) < MaxTurns
    /\ IF conv > Len(chatMessages)
       THEN /\ chat' = [IdleChat EXCEPT !.pc = "raised", !.conv = conv]
            /\ chatMessages' = chatMessages
       ELSE LET id == IF conv = 0 THEN Len(chatMessages) + 1 ELSE conv
                before == IF conv = 0 THEN <<>> ELSE chatMessages[conv]
                user == StoredMessage("user", <<"Q">>)
                history == [k \in 1..Len(before) |-> LlmMessage(before[k].role, "text", 0)]
            IN  /\ chatMessages' =
                      IF conv = 0 THEN Append(chatMessages, <<user>>)
                      ELSE [chatMessages EXCEPT ![conv] = Append(@, user)]
                /\ chat' = [IdleChat EXCEPT
                              !.pc = "first", !.conv = id, !.requests = 1,
                              !.messages = Append(history, LlmMessage("user", "text", 0))]
    /\ UNCHANGED <<movies, ratings, cast, posters, prefs, jobs, imp, req, ret>>

\* the reply leaves get_chat_response: the assistant message is committed and
\* the response returned
Replied(c, text) ==
    /\ chatMessages' = [chatMessages EXCEPT ![c.conv] = Append(@, StoredMessage("assistant", text))]
    /\ chat' = [c EXCEPT !.pc = "replied", !.reply = text]

\* the response to the first request: an exception or a status other than
\* 200 leaves send_chat_message as HTTP 500; empty content is answered with a
\* notice; else the loop over the content blocks starts
FirstResponse(out) ==
    /\ chat.pc = "first"
    /\ IF out.status # "ok"
       THEN /\ chat' = [chat EXCEPT !.pc = "raised"]
            /\ chatMessages' = chatMessages
       ELSE IF out.content = <<>>
       THEN Replied([chat EXCEPT !.last = out.content], CouldNotGenerate)
       ELSE /\ chat' = [chat EXCEPT !.pc = "blocks", !.blocks = out.content,
                                    !.last = out.content]
            /\ chatMessages' = chatMessages
    /\ UNCHANGED <<movies, ratings, cast, posters, prefs, jobs, imp, req, ret>>

\* a text block of the first response
TextStep ==
    /\ chat.pc = "blocks"
    /\ chat.idx < Len(chat.blocks)
    /\ chat.blocks[chat.idx + 1].type = "text"
    /\ chat' = [chat EXCEPT !.idx = @ + 1, !.final = @ \o chat.blocks[chat.idx + 1].text]
    /\ UNCHANGED <<movies, ratings, cast, posters, prefs, jobs, chatMessages, imp, req, ret>>

\* a tool_use block of the first response: the tool runs, the assistant
\* message and the tool result are appended to messages and posted
ToolStep(dbOk) ==
    /\ chat.pc = "blocks"
    /\ chat.idx < Len(chat.blocks)
    /\ chat.blocks[chat.idx + 1].type = "tool_use"
    /\ LET b == chat.blocks[chat.idx + 1]
           result == ExecuteMcpTool(b.name, b.input, dbOk)
       IN  IF result.raised
           THEN chat' = [chat EXCEPT !.idx = @ + 1, !.final = @ \o ErrorText]
           ELSE chat' = [chat EXCEPT
                           !.pc = "followup",
                           !.messages = @ \o <<LlmMessage("assistant", "content_blocks", 0),
                                                LlmMessage("user", "tool_result", chat.idx + 1)>>,
                           !.sent = Append(@, [block |-> chat.idx + 1, error |-> result.error]),
                           !.requests = @ + 1]
    /\ UNCHANGED <<movies, ratings, cast, posters, prefs, jobs, chatMessages, imp, req, ret>>

\* the response to a follow-up request: its text blocks are appended to
\* final_response and nothing else of it is used; a status other than 200 is
\* passed over; an exception adds the error text
FollowUp(out) ==
    /\ chat.pc = "followup"
    /\ chat' = [chat EXCEPT
                  !.pc = "blocks",
                  !.idx = @ + 1,
                  !.last = IF out.status = "ok" THEN out.content ELSE @,
                  !.final = CASE out.status = "ok" -> @ \o TextOf(out.content)
                              [] out.status = "raise" -> @ \o ErrorText
                              [] OTHER -> @]
    /\ UNCHANGED <<movies, ratings, cast, posters, prefs, jobs, chatMessages, imp, req, ret>>

\* after the last block: final_response, or the notice when it is empty
Finish ==
    /\ chat.pc = "blocks"
    /\ chat.idx = Len(chat.blocks)
    /\ Replied(chat, IF chat.final # <<>> THEN chat.final ELSE CouldNotProcess)
    /\ UNCHANGED <<movies, ratings, cast, posters, prefs, jobs, imp, req, ret>>

NextChat ==
    \/ \E conv \in 0..(Len(chatMessages) + 1) : SendChatMessage(conv)
    \/ \E out \in Outcomes(FirstContents) : FirstResponse(out)
    \/ TextStep
    \/ \E dbOk \in BOOLEAN : ToolStep(dbOk)
    \/ \E out \in Outcomes(FollowContents) : FollowUp(out)
    \/ Finish

SpecChat == Init /\ [][NextChat]_vars

\* the same turns with first responses of up to IterationBound tool invocations
NextBurst ==
    \/ \E conv \in 0..(Len(chatMessages) + 1) : SendChatMessage(conv)
    \/ \E out \in Outcomes(BurstContents) : FirstResponse(out)
    \/ ToolStep(TRUE)
    \/ \E out \in Outcomes(FollowContents) : FollowUp(out)
    \/ Finish

SpecBurst == Init /\ [][NextBurst]_vars

----------------------------------------------------------------------------
(* Claims about the chat assistant *)

\* C7: the reply of a turn is emitted only after an LLM response without
\* tool invocations, or when the iteration bound is hit.
C7_ReplyAfterToolFreeResponse ==
    chat.pc = "replied" => (ToolUses(chat.last) = <<>> \/ chat.requests >= IterationBound)

\* C8: a turn makes at most IterationBound requests to the LLM, however many
\* tool invocations the LLM issues, and ends with a non-empty reply.
C8_BoundedRequestsAndReply ==
    /\ chat.requests <= IterationBound
    /\ chat.pc = "raised" => chat.requests = 0
    /\ chat.pc = "replied" => chat.reply # <<>>

\* the tool invocations get_chat_response has gone through
Handled == IF chat.pc = "followup" THEN chat.idx + 1 ELSE chat.idx

\* the invocation cannot succeed: unknown tool or missing argument
MustFail(b) == b.name \notin DOMAIN RequiredArgs \/ ~(RequiredArgs[b.name] \subseteq b.input)

C10_Alternates ==
    \A c \in 1..Len(chatMessages) : \A k \in 1..Len(chatMessages[c]) :
        chatMessages[c][k].role = IF k % 2 = 1 THEN "user" ELSE "assistant"

----------------------------------------------------------------------------
(* The movie query tools: MovieTools, execute_mcp_tool, handle_call_tool   *)

\* rows of an exported ratings file the tools are asked about
RowC == WithImdbRating(CsvRow(<<"t", "t", "3">>, NumCell(9), Some("AB"), Some(2010), Some(10000),
                              <<"Drama">>, <<"Coen">>), 85)
RowD == WithImdbRating(CsvRow(<<"t", "t", "4">>, NumCell(5), Some("B2"), Some(1995), Some(120),
                              <<"Comedy", "Drama">>, <<"Coen">>), 60)
ToolRows == {RowA, RowB, RowC, RowD}

\* sequences of distinct elements of a set, of at most n elements
DistinctSeqs(S, n) ==
    {s \in SeqsUpTo(S, n) : \A i, j \in 1..Len(s) : s[i] = s[j] => i = j}

\* the actor rows of a movie as the metadata enrichment stores them: one row
\* per credited character, so an actor with two characters has two rows
ActorsOf(imdbId) ==
    IF imdbId = <<"t", "t", "1">> THEN <<"Kim", "Lee">>
    ELSE IF imdbId = <<"t", "t", "2">> THEN <<"Kim">>
    ELSE IF imdbId = <<"t", "t", "3">> THEN <<"Day", "Day">>
    ELSE <<"Lee">>

RECURSIVE ActorRows(_)
ActorRows(ms) ==
    IF ms = <<>> THEN <<>>
    ELSE LET names == ActorsOf(ms[1].imdb_id)
         IN  [k \in 1..Len(names) |->
                 [movie_id |-> ms[1].id, name |-> names[k], role |-> "actor"]]
                \o ActorRows(Tail(ms))

\* the Store with the actor rows of its movies added
WithActors(S) == <<S[1], S[2], S[3] \o ActorRows(S[1])>>

\* the number of rows of the files imported for the tools
MaxMovies == 3

\* the Stores the tools and analyses are run on: imported files, with or
\* without the cast of the movies
ImportedStores == {ImportRows(<<<<>>, <<>>, <<>>>>, rows) : rows \in DistinctSeqs(ToolRows, MaxMovies)}
ToolStores == ImportedStores \cup {WithActors(S) : S \in ImportedStores}

\* what a tool call answers: a list of movies (their ids, in order), a
\* message ({"error": msg}, or the text of the tool server), or an exception
MovieList(rows) ==
    [status |-> "movies", movies |-> [k \in 1..Len(rows) |-> rows[k].movie.id], msg |-> ""]
Message(text) == [status |-> "message", movies |-> <<>>, msg |-> text]
Raised == [status |-> "raise", movies |-> <<>>, msg |-> ""]

\* the argument map of filter_movies; None is an absent key
NoFilterArgs ==
    [genres |-> None, year_min |-> None, year_max |-> None,
     user_rating_min |-> None, user_rating_max |-> None, imdb_rating_min |-> None,
     runtime_min |-> None, runtime_max |-> None,
     sort_by |-> None, order |-> None, limit |-> None]

\* "key" in arguments
Present(x) == ~IsNone(x)
\* if value: the value is given and is not 0
Truthy(x) == ~IsNone(x) /\ Val(x) # 0
\* if genres: the list is given and not empty
TruthyList(x) == ~IsNone(x) /\ Val(x) # <<>>
\* arguments.get(key, default)
Get(x, default) == IF IsNone(x) THEN default ELSE Val(x)

\* Movie.genres.contains([genre]): the genre is an element of the JSON list
GenreContains(m, g) ==
    ~IsNone(m.genres) /\ \E k \in 1..Len(Val(m.genres)) : Val(m.genres)[k] = g
\* or_(*genre_conditions)
AnyGenre(m, gs) == \E i \in 1..Len(gs) : GenreContains(m, gs[i])
\* column >= x and column <= x; a NULL column satisfies neither
AtLeast(col, x) == ~IsNone(col) /\ Val(col) >= x
AtMost(col, x) == ~IsNone(col) /\ Val(col) <= x

\* the columns a result can be ordered by
SortColumns == {"rating", "title", "year", "imdb_rating", "runtime_minutes"}
\* the position of a title in the collation of the titles of the Store
Collate(t) ==
    IF t = "A" THEN 1 ELSE IF t = "A2" THEN 2 ELSE IF t = "AB" THEN 3
    ELSE IF t = "B" THEN 4 ELSE 5
\* the value of the order column in a joined row; NULL sorts lowest
NullKey == 0 - 1
SortKey(row, col) ==
    LET OptKey(x) == IF IsNone(x) THEN NullKey ELSE Val(x)
    IN  IF col = "rating" THEN row.rating
        ELSE IF col = "title" THEN Collate(Val(row.movie.title))
        ELSE IF col = "year" THEN OptKey(row.movie.year)
        ELSE IF col = "imdb_rating" THEN OptKey(row.movie.imdb_rating)
        ELSE OptKey(row.movie.runtime_minutes)
\* query.order_by(order_column): descending only when order is "desc"; rows
\* with equal keys stay in the order of the join
OrderBy(rows, col, order) ==
    LET keys == [i \in 1..Len(rows) |-> SortKey(rows[i], col)]
    IN  IF order = "desc" THEN SortDesc(rows, keys)
        ELSE SortDesc(rows, [i \in 1..Len(rows) |-> 0 - keys[i]])

\* whether a dispatcher applies the filter of an argument: when the key is
\* present, or when the value is truthy
Given(x, when) == IF when = "present" THEN Present(x) ELSE Truthy(x)

\* the filters every dispatcher applies
BaseFilters(rows, a, when) ==
    LET Keep(row) ==
            /\ TruthyList(a.genres) => AnyGenre(row.movie, Val(a.genres))
            /\ Given(a.year_min, when) => AtLeast(row.movie.year, Val(a.year_min))
            /\ Given(a.year_max, when) => AtMost(row.movie.year, Val(a.year_max))
            /\ Given(a.user_rating_min, when) => row.rating >= Val(a.user_rating_min)
            /\ Given(a.user_rating_max, when) => row.rating <= Val(a.user_rating_max)
            /\ Given(a.imdb_rating_min, when) => AtLeast(row.movie.imdb_rating, Val(a.imdb_rating_min))
    IN  SelectSeq(rows, Keep)
\* the runtime filters
RuntimeFilters(rows, a, when) ==
    LET Keep(row) ==
            /\ Given(a.runtime_min, when) => AtLeast(row.movie.runtime_minutes, Val(a.runtime_min))
            /\ Given(a.runtime_max, when) => AtMost(row.movie.runtime_minutes, Val(a.runtime_max))
    IN  SelectSeq(rows, Keep)

\* MovieTools.filter_movies: a filter applies when its argument is truthy; an
\* unknown sort_by orders by rating
MovieTools_filter_movies(S, a) ==
    LET rows == RuntimeFilters(BaseFilters(JoinRatings(S[1], S[2]), a, "truthy"), a, "truthy")
        sort_by == Get(a.sort_by, "rating")
        order_column == IF sort_by \in SortColumns THEN sort_by ELSE "rating"
    IN  MovieList(Take(OrderBy(rows, order_column, Get(a.order, "desc")), Get(a.limit, 20)))

\* execute_mcp_tool, filter_movies: a filter applies when its key is present;
\* no runtime filters; an unknown sort_by leaves order_column unbound and the
\* handler answers with the error of the exception
ExecuteMcpTool_filter_movies(S, a) ==
    LET rows == BaseFilters(JoinRatings(S[1], S[2]), a, "present")
        sort_by == Get(a.sort_by, "rating")
    IN  IF sort_by \notin SortColumns THEN Message("Error executing tool")
        ELSE MovieList(Take(OrderBy(rows, sort_by, Get(a.order, "desc")), Get(a.limit, 20)))

\* handle_call_tool, filter_movies: a filter applies when its key is present;
\* an unknown sort_by leaves order_column unbound and the exception leaves
\* the handler
HandleCallTool_filter_movies(S, a) ==
    LET rows == RuntimeFilters(BaseFilters(JoinRatings(S[1], S[2]), a, "present"), a, "present")
        sort_by == Get(a.sort_by, "rating")
    IN  IF sort_by \notin SortColumns THEN Raised
        ELSE MovieList(Take(OrderBy(rows, sort_by, Get(a.order, "desc")), Get(a.limit, 20)))

\* the characters of the titles and names of the Store
Chars(s) ==
    IF s = "A" THEN <<"A">> ELSE IF s = "A2" THEN <<"A", "2">>
    ELSE IF s = "AB" THEN <<"A", "B">> ELSE IF s = "B" THEN <<"B">>
    ELSE IF s = "B2" THEN <<"B", "2">>
    ELSE IF s = "Nolan" THEN <<"N", "o", "l", "a", "n">>
    ELSE IF s = "Coen" THEN <<"C", "o", "e", "n">>
    ELSE IF s = "Lee" THEN <<"L", "e", "e">>
    ELSE IF s = "Kim" THEN <<"K", "i", "m">>
    ELSE IF s = "Day" THEN <<"D", "a", "y">>
    ELSE <<>>
\* str.lower() of one character
LowerChar(c) ==
    IF c = "A" THEN "a" ELSE IF c = "B" THEN "b" ELSE IF c = "C" THEN "c"
    ELSE IF c = "D" THEN "d" ELSE IF c = "K" THEN "k" ELSE IF c = "L" THEN "l"
    ELSE IF c = "N" THEN "n" ELSE c
Lower(cs) == [k \in 1..Len(cs) |-> LowerChar(cs[k])]
\* column.ilike("%q%"): q occurs in the column, case ignored; a NULL column
\* matches nothing
ILike(col, q) ==
    /\ ~IsNone(col)
    /\ LET text == Lower(Chars(Val(col)))
           pat == Lower(q)
       IN  \E i \in 0..(Len(text) - Len(pat)) : SubSeq(text, i + 1, i + Len(pat)) = pat

\* the cast rows of a movie
CastOf(S, movieId) == LET Mine(c) == c.movie_id = movieId IN SelectSeq(S[3], Mine)

\* search_movies: the query occurs in the title, the director or the name of
\* a cast member; the same in the three dispatchers
search_movies(S, query, limit) ==
    LET Hit(row) ==
            \/ ILike(row.movie.title, query)
            \/ ILike(row.movie.director, query)
            \/ \E k \in 1..Len(S[3]) : /\ S[3][k].movie_id = row.movie.id
                                       /\ ILike(Some(S[3][k].name), query)
    IN  MovieList(Take(SelectSeq(JoinRatings(S[1], S[2]), Hit), limit))

\* the movie an identifier names: by imdb_id when it starts with "tt", else
\* the first movie whose title contains it
Identified(m, identifier) ==
    IF StartsWithTT(identifier) THEN m.imdb_id = identifier
    ELSE ILike(m.title, identifier)

\* get_movie_details: the first rated movie the identifier names, or the
\* message that there is none; the same in the three dispatchers
get_movie_details(S, identifier) ==
    LET Hit(row) == Identified(row.movie, identifier)
        result == First(JoinRatings(S[1], S[2]), Hit)
    IN  IF IsNone(result) THEN Message("Movie not found") ELSE MovieList(<<Val(result)>>)

\* query(Movie, UserRating, CastMember).join(UserRating).join(CastMember):
\* one row per rated movie and cast row of it
RECURSIVE JoinCast(_, _)
JoinCast(joined, S) ==
    IF joined = <<>> THEN <<>>
    ELSE LET mine == CastOf(S, joined[1].movie.id)
         IN  [k \in 1..Len(mine) |-> [movie |-> joined[1].movie, rating |-> joined[1].rating,
                                     cast_member |-> mine[k]]]
                \o JoinCast(Tail(joined), S)

\* get_cast_member_movies: the movies of the cast rows whose name contains
\* the query, or the message that there are none; the same in the three
\* dispatchers
get_cast_member_movies(S, name, role_filter) ==
    LET Hit(row) == /\ ILike(Some(row.cast_member.name), name)
                    /\ role_filter # "" => row.cast_member.role = role_filter
        results == SelectSeq(JoinCast(JoinRatings(S[1], S[2]), S), Hit)
    IN  IF results = <<>> THEN Message("No movies found for cast member")
        ELSE MovieList(results)

\* the reference movie of find_similar_movies: rated or not
RefMovie(S, identifier) == LET Hit(m) == Identified(m, identifier) IN First(S[1], Hit)

\* the candidates by genre: rated movies other than the reference that carry
\* one of its genres
GenreSimilar(S, ref, limit) ==
    LET Hit(row) == row.movie.id # ref.id /\ AnyGenre(row.movie, Val(ref.genres))
    IN  Take(SelectSeq(JoinRatings(S[1], S[2]), Hit), limit)
\* the candidates by director
DirectorSimilar(S, ref, limit) ==
    LET Hit(row) == row.movie.id # ref.id /\ row.movie.director = ref.director
    IN  Take(SelectSeq(JoinRatings(S[1], S[2]), Hit), limit)
\* the candidates by cast: one row per cast row whose name the reference
\* movie has too
CastSimilar(S, ref, limit) ==
    LET ref_cast == CastOf(S, ref.id)
        Hit(row) == /\ row.movie.id # ref.id
                    /\ \E k \in 1..Len(ref_cast) : ref_cast[k].name = row.cast_member.name
    IN  Take(SelectSeq(JoinCast(JoinRatings(S[1], S[2]), S), Hit), limit)

\* the loop over similar_movies without the seen_ids test
KeepAllSimilar(rows, seen_ids, limit) == Take(rows, limit)

\* the loop over similar_movies: the first row of every movie id, until
\* limit rows are kept
RECURSIVE UniqueSimilar(_, _, _)
UniqueSimilar(rows, seen_ids, limit) ==
    IF rows = <<>> THEN <<>>
    ELSE IF rows[1].movie.id \in seen_ids THEN UniqueSimilar(Tail(rows), seen_ids, limit)
    ELSE IF limit <= 1 THEN <<rows[1]>>
    ELSE <<rows[1]>> \o UniqueSimilar(Tail(rows), seen_ids \cup {rows[1].movie.id}, limit - 1)

\* the similarity parts a dispatcher runs for a similarity_type
SimilarRows(S, ref, similarity_type, limit, parts) ==
    LET hasGenres == ~IsNone(ref.genres) /\ Val(ref.genres) # <<>>
        hasDirector == ~IsNone(ref.director) /\ Val(ref.director) # ""
    IN  (IF "genre" \in parts /\ similarity_type \in {"genre", "all"} /\ hasGenres
         THEN GenreSimilar(S, ref, limit) ELSE <<>>)
        \o (IF "director" \in parts /\ similarity_type \in {"director", "all"} /\ hasDirector
            THEN DirectorSimilar(S, ref, limit) ELSE <<>>)
        \o (IF "cast" \in parts /\ similarity_type \in {"cast", "all"}
            THEN CastSimilar(S, ref, limit) ELSE <<>>)

\* find_similar_movies over the given similarity parts
FindSimilar(S, identifier, similarity_type, limit, parts) ==
    LET ref_movie == RefMovie(S, identifier)
    IN  IF IsNone(ref_movie) THEN Message("Reference movie not found")
        ELSE MovieList(UniqueSimilar(SimilarRows(S, Val(ref_movie), similarity_type, limit, parts),
                                     {}, limit))

\* MovieTools.find_similar_movies: by genre, director and cast
MovieTools_find_similar_movies(S, identifier, similarity_type, limit) ==
    FindSimilar(S, identifier, similarity_type, limit, {"genre", "director", "cast"})
\* execute_mcp_tool, find_similar_movies: by genre only
ExecuteMcpTool_find_similar_movies(S, identifier, similarity_type, limit) ==
    FindSimilar(S, identifier, similarity_type, limit, {"genre"})
\* handle_call_tool, find_similar_movies: by genre, director and cast
HandleCallTool_find_similar_movies(S, identifier, similarity_type, limit) ==
    FindSimilar(S, identifier, similarity_type, limit, {"genre", "director", "cast"})

----------------------------------------------------------------------------
(* SpecTools: one tool call answered by the three dispatchers              *)

\* the number of keys of an argument map of filter_movies
MaxArgs == 2

\* the values an argument of filter_movies is drawn from
FilterValues ==
    [genres |-> {<<"Drama">>, <<"Comedy", "War">>},
     year_min |-> {2000}, year_max |-> {1999},
     user_rating_min |-> {5}, user_rating_max |-> {0, 5},
     imdb_rating_min |-> {80},
     runtime_min |-> {90}, runtime_max |-> {0, 100},
     sort_by |-> {"title", "year", "popularity"},
     order |-> {"asc"},
     limit |-> {1}]

\* the argument maps with the keys ks, built on the map a
RECURSIVE ArgMaps(_, _)
ArgMaps(a, ks) ==
    IF ks = {} THEN {a}
    ELSE LET k == CHOOSE x \in ks : TRUE
         IN  UNION {ArgMaps([a EXCEPT ![k] = Some(v)], ks \ {k}) : v \in FilterValues[k]}

FilterArgs ==
    UNION {ArgMaps(NoFilterArgs, ks) :
             ks \in {x \in SUBSET (DOMAIN FilterValues) : Cardinality(x) <= MaxArgs}}

Identifiers == {<<"t", "t", "1">>, <<"t", "t", "3">>, <<"t", "t", "9">>, <<"a">>, <<"B">>, <<"z">>}
SimilarityTypes == {"genre", "director", "cast", "all"}
Limits == {1, 2, 10}
Queries == {<<"a">>, <<"k", "i">>, <<"O">>, <<"z">>}
RoleFilters == {"", "actor", "director"}

\* the call and the answers of MovieTools, execute_mcp_tool and
\* handle_call_tool to it
Answers(tool, input, byTools, byChat, byServer) ==
    [tool |-> tool, input |-> input, tools |-> byTools, chat |-> byChat, server |-> byServer]

\* the server starts on one of the given Stores
InitOn(stores) ==
    /\ \E S \in stores : movies = S[1] /\ ratings = S[2] /\ cast = S[3]
    /\ posters = <<>> /\ prefs = <<>> /\ jobs = <<>> /\ chatMessages = <<>>
    /\ imp = [s \in Importers |-> IdleImporter]
    /\ req = [h \in Handlers |-> IdleHandler]
    /\ ret = None
    /\ chat = IdleChat

InitTools == InitOn(ToolStores)

CallFilterMovies(a) ==
    /\ IsNone(ret)
    /\ ret' = Some(Answers("filter_movies", a,
                           MovieTools_filter_movies(store, a),
                           ExecuteMcpTool_filter_movies(store, a),
                           HandleCallTool_filter_movies(store, a)))
    /\ UNCHANGED <<movies, ratings, cast, posters, prefs, jobs, chatMessages, imp, req, chat>>

CallFindSimilarMovies(identifier, similarity_type, limit) ==
    /\ IsNone(ret)
    /\ ret' = Some(Answers("find_similar_movies",
                           [movie_identifier |-> identifier,
                            similarity_type |-> similarity_type, limit |-> limit],
                           MovieTools_find_similar_movies(store, identifier, similarity_type, limit),
                           ExecuteMcpTool_find_similar_movies(store, identifier, similarity_type, limit),
                           HandleCallTool_find_similar_movies(store, identifier, similarity_type, limit)))
    /\ UNCHANGED <<movies, ratings, cast, posters, prefs, jobs, chatMessages, imp, req, chat>>

CallGetMovieDetails(identifier) ==
    /\ IsNone(ret)
    /\ LET answer == get_movie_details(store, identifier)
       IN  ret' = Some(Answers("get_movie_details", [identifier |-> identifier],
                               answer, answer, answer))
    /\ UNCHANGED <<movies, ratings, cast, posters, prefs, jobs, chatMessages, imp, req, chat>>

CallSearchMovies(query, limit) ==
    /\ IsNone(ret)
    /\ LET answer == search_movies(store, query, limit)
       IN  ret' = Some(Answers("search_movies", [query |-> query, limit |-> limit],
                               answer, answer, answer))
    /\ UNCHANGED <<movies, ratings, cast, posters, prefs, jobs, chatMessages, imp, req, chat>>

CallGetCastMemberMovies(name, role_filter) ==
    /\ IsNone(ret)
    /\ LET answer == get_cast_member_movies(store, name, role_filter)
       IN  ret' = Some(Answers("get_cast_member_movies",
                               [name |-> name, role_filter |-> role_filter],
                               answer, answer, answer))
    /\ UNCHANGED <<movies, ratings, cast, posters, prefs, jobs, chatMessages, imp, req, chat>>

\* a name outside the registry: MovieTools has no such method, the two
\* dispatchers answer "Unknown tool"
CallUnknownTool ==
    /\ IsNone(ret)
    /\ ret' = Some(Answers("recommend", <<>>, Raised,
                           Message("Unknown tool"), Message("Unknown tool")))
    /\ UNCHANGED <<movies, ratings, cast, posters, prefs, jobs, chatMessages, imp, req, chat>>

\* the answer goes to the caller
ToolReturn ==
    /\ ~IsNone(ret)
    /\ ret' = None
    /\ UNCHANGED <<movies, ratings, cast, posters, prefs, jobs, chatMessages, imp, req, chat>>

NextTools ==
    \/ \E a \in FilterArgs : CallFilterMovies(a)
    \/ \E i \in Identifiers, t \in SimilarityTypes, n \in Limits : CallFindSimilarMovies(i, t, n)
    \/ \E i \in Identifiers : CallGetMovieDetails(i)
    \/ \E q \in Queries, n \in Limits : CallSearchMovies(q, n)
    \/ \E q \in Queries, r \in RoleFilters : CallGetCastMemberMovies(q, r)
    \/ CallUnknownTool
    \/ ToolReturn

SpecTools == InitTools /\ [][NextTools]_vars

\* the call in flight is to the given tool
Called(tool) == ~IsNone(ret) /\ Val(ret).tool = tool

\* C11: for every call, execute_mcp_tool and handle_call_tool give the same
\* answer (the same movies in the same order, the same message), and so does
\* the MovieTools method of a tool of the registry
C11_DispatchersAgree ==
    ~IsNone(ret) =>
        /\ Val(ret).chat = Val(ret).server
        /\ Val(ret).tool # "recommend" => Val(ret).tools = Val(ret).chat

\* the ids of a list of movies are all different
NoDuplicates(ids) == \A i, j \in 1..Len(ids) : ids[i] = ids[j] => i = j

\* the answer holds neither the reference movie of the call nor a movie twice
ExcludesReference(answer, input) ==
    answer.status = "movies" =>
        /\ NoDuplicates(answer.movies)
        /\ \A k \in 1..Len(answer.movies) :
               answer.movies[k] # Val(RefMovie(store, input.movie_identifier)).id

\* C12: whatever the Store, the reference movie, the similarity_type and the
\* limit, the result of find_similar_movies (MovieTools, handle_call_tool and
\* execute_mcp_tool) holds neither the reference movie nor a movie twice
C12_SimilarExcludesReference ==
    Called("find_similar_movies") =>
        /\ ExcludesReference(Val(ret).tools, Val(ret).input)
        /\ ExcludesReference(Val(ret).server, Val(ret).input)
        /\ ExcludesReference(Val(ret).chat, Val(ret).input)

\* a call by "all" whose candidate rows name a movie more than once and whose
\* reference movie shares genre, director or cast with two other movies
C12_Witness ==
    /\ Called("find_similar_movies")
    /\ Val(ret).input.similarity_type = "all"
    /\ Len(Val(ret).tools.movies) >= 2
    /\ LET ref == Val(RefMovie(store, Val(ret).input.movie_identifier))
           rows == SimilarRows(store, ref, "all", Val(ret).input.limit,
                               {"genre", "director", "cast"})
       IN  Len(rows) > Len(Val(ret).tools.movies)

\* a joined row carries one of the listed genres and lies within every bound
\* the argument map supplies, bounds included
WithinBounds(row, a) ==
    /\ TruthyList(a.genres) => AnyGenre(row.movie, Val(a.genres))
    /\ Present(a.year_min) => AtLeast(row.movie.year, Val(a.year_min))
    /\ Present(a.year_max) => AtMost(row.movie.year, Val(a.year_max))
    /\ Present(a.user_rating_min) => row.rating >= Val(a.user_rating_min)
    /\ Present(a.user_rating_max) => row.rating <= Val(a.user_rating_max)
    /\ Present(a.imdb_rating_min) => AtLeast(row.movie.imdb_rating, Val(a.imdb_rating_min))
    /\ Present(a.runtime_min) => AtLeast(row.movie.runtime_minutes, Val(a.runtime_min))
    /\ Present(a.runtime_max) => AtMost(row.movie.runtime_minutes, Val(a.runtime_max))

\* the ids of the rated movies within the bounds of a
MatchingIds(S, a) ==
    LET joined == JoinRatings(S[1], S[2])
    IN  {joined[k].movie.id : k \in {i \in 1..Len(joined) : WithinBounds(joined[i], a)}}

\* the list holds only movies within the bounds, and all of them up to limit
ExactlyMatching(answer, S, a) ==
    answer.status = "movies" =>
        /\ \A k \in 1..Len(answer.movies) : answer.movies[k] \in MatchingIds(S, a)
        /\ Len(answer.movies) = Min(Get(a.limit, 20), Cardinality(MatchingIds(S, a)))

\* C13: filter_movies of MovieTools and of execute_mcp_tool returns, up to
\* limit, exactly the rated movies that carry one of the listed genres and
\* satisfy every supplied bound inclusively, a bound of 0 included
C13_FilterExact ==
    Called("filter_movies") =>
        /\ ExactlyMatching(Val(ret).tools, store, Val(ret).input)
        /\ ExactlyMatching(Val(ret).chat, store, Val(ret).input)

\* the user rating of a movie of the Store
RatingOf(S, movieId) == Val(ExistingRating(S[2], movieId)).rating

\* the list is in descending order of user rating
ByRatingDescending(S, ids) ==
    \A i, j \in 1..Len(ids) : i < j => RatingOf(S, ids[i]) >= RatingOf(S, ids[j])

\* the answer to a filter_movies call is a list; ordered by rating,
\* descending, when the call names no order
ListByRating(answer, S, a) ==
    /\ answer.status = "movies"
    /\ IsNone(a.order) => ByRatingDescending(S, answer.movies)

\* C14: from every dispatcher, filter_movies without sort_by and order
\* answers by user rating descending, and with a sort_by outside the known
\* columns it falls back to the rating and still answers a list of movies
C14_SortFallback ==
    Called("filter_movies") /\
    (IsNone(Val(ret).input.sort_by) \/ Val(ret).input.sort_by \notin {Some(c) : c \in SortColumns})
        => /\ ListByRating(Val(ret).tools, store, Val(ret).input)
           /\ ListByRating(Val(ret).chat, store, Val(ret).input)
           /\ ListByRating(Val(ret).server, store, Val(ret).input)

----------------------------------------------------------------------------
(* SpecAnalysis: the analyses requested on an imported Store               *)

\* rows whose Genres cell is "," and "War, War"
RowE == CsvRow(<<"t", "t", "5">>, NumCell(7), Some("B"), Some(1995), Some(90),
               <<"", "">>, <<>>)
RowF == CsvRow(<<"t", "t", "6">>, NumCell(4), Some("A2"), Some(2000), Some(119),
               <<"War", "War">>, <<>>)
AnalysisRows == ToolRows \cup {RowE, RowF}

AnalysisStores ==
    LET imported == {ImportRows(<<<<>>, <<>>, <<>>>>, rows) :
                        rows \in DistinctSeqs(AnalysisRows, MaxMovies)}
    IN  imported \cup {WithActors(S) : S \in imported}

InitAnalysis == InitOn(AnalysisStores)

NextAnalysis ==
    \/ \E kind \in AnalysisKinds, force \in BOOLEAN : Analyze(kind, force)
    \/ Deliver

SpecAnalysis == InitAnalysis /\ [][NextAnalysis]_vars

\* the response in flight is the analysis of the given kind
Analyzed(kind) == ~IsNone(ret) /\ Val(ret).kind = kind

\* the sum of the counts of the groups of an analysis
RECURSIVE SumCounts(_)
SumCounts(groups) == IF groups = <<>> THEN 0 ELSE groups[1].count + SumCounts(Tail(groups))

\* C15: the four runtime buckets partition the runtimes >= 0, so the counts
\* of the buckets of a runtime analysis add up to the number of rated movies
\* with a runtime
C15_BucketsPartition ==
    Analyzed("runtime") =>
        SumCounts(Val(ret).payload.runtime_distribution) = Len(Results("runtime", store))

\* the rated movies of the Store
RatedIds(S) == {S[2][k].movie_id : k \in 1..Len(S[2])} \cap {S[1][k].id : k \in 1..Len(S[1])}
\* the rated movies a name acts in
MoviesOfActor(S, name) ==
    {S[3][k].movie_id : k \in {i \in 1..Len(S[3]) : S[3][i].role = "actor" /\ S[3][i].name = name}}
        \cap RatedIds(S)
\* the rated movies a name directs
MoviesOfDirector(S, name) ==
    {S[1][k].id : k \in {i \in 1..Len(S[1]) : S[1][i].director = Some(name)}} \cap RatedIds(S)
ActorNames(S) == {S[3][k].name : k \in {i \in 1..Len(S[3]) : S[3][i].role = "actor"}}
DirectorNames(S) == {Val(S[1][k].director) : k \in {i \in 1..Len(S[1]) : ~IsNone(S[1][i].director)}}
\* the names of a ranking
Ranked(people) == {people[k].name : k \in 1..Len(people)}

\* C16: a cast analysis ranks an actor or a director if and only if the
\* person has at least 2 distinct rated movies (fewer than 10 people
\* qualify in these Stores, so the top-10 limit cuts nobody)
C16_CastQualifies ==
    Analyzed("cast") =>
        /\ Ranked(Val(ret).payload.favorite_actors) =
               {n \in ActorNames(store) : Cardinality(MoviesOfActor(store, n)) >= 2}
        /\ Ranked(Val(ret).payload.favorite_directors) =
               {n \in DirectorNames(store) : Cardinality(MoviesOfDirector(store, n)) >= 2}

\* the rated movies with genres that carry genre g
Carrying(S, g) ==
    LET results == Results("genres", S)
    IN  {k \in 1..Len(results) : GenreContains(results[k].movie, g)}

\* the sum of the counts of a genre distribution
RECURSIVE SumDistribution(_)
SumDistribution(d) ==
    IF d = {} THEN 0
    ELSE LET e == CHOOSE x \in d : TRUE IN e[2] + SumDistribution(d \ {e})

\* C17: in a genre analysis the count of a genre is the number of rated
\* movies carrying it, so the counts sum to at least the number of rated
\* movies of the analysis, and to exactly that number when every movie
\* carries one genre
C17_GenreFanOut ==
    Analyzed("genres") =>
        LET results == Results("genres", store)
            d == Val(ret).payload.genre_distribution
        IN  /\ \A e \in d : e[2] = Cardinality(Carrying(store, e[1]))
            /\ SumDistribution(d) >= Len(results)
            /\ (\A k \in 1..Len(results) : Len(Val(results[k].movie.genres)) = 1)
                   => SumDistribution(d) = Len(results)

----------------------------------------------------------------------------
(* generate_overall_insights and POST /analysis/regenerate/{kind}          *)

\* analyze_<kind>(force_regenerate) as a call inside a handler: the payload
\* it returns and the cache it leaves
AnalyzeCall(kind, force, S, ps) ==
    LET cached == Cached(ps, kind)
        fresh == Analysis(kind, S)
    IN  IF ~force /\ ~IsNone(cached) THEN [payload |-> Val(cached), prefs |-> ps]
        ELSE IF ReturnsUnsaved(kind, S) THEN [payload |-> fresh, prefs |-> ps]
        ELSE [payload |-> fresh, prefs |-> SaveAnalysis(ps, kind, fresh)]

\* [x.genre for x in data] / [p.name for p in people]
GenreNames(data) == [k \in 1..Len(data) |-> data[k].genre]
PersonNames(people) == [k \in 1..Len(people) |-> people[k].name]

\* analysis_summary: the figures the overall insights are built from, given
\* the payloads of the four analyses by kind
AnalysisSummary(p) ==
    [genres |-> [favorites |-> GenreNames(Take(p["genres"].favorite_genres, 3)),
                 least_favorites |-> GenreNames(Take(p["genres"].least_favorite_genres, 3))],
     decades |-> [favorites |-> Take(p["years"].favorite_decades, 3)],
     runtime |-> [preferred |-> p["runtime"].preferred_length,
                  average |-> p["runtime"].average_runtime],
     cast |-> [favorite_actors |-> PersonNames(Take(p["cast"].favorite_actors, 5)),
               favorite_directors |-> PersonNames(Take(p["cast"].favorite_directors, 5))]]

\* the summary of the four analyses computed from the Store
FreshSummary(S) == AnalysisSummary([kind \in AnalysisKinds |-> Analysis(kind, S)])

\* the order generate_overall_insights calls the analyses in
InsightOrder == <<"genres", "years", "runtime", "cast">>

\* the analyses called in turn without force_regenerate, each reading and
\* filling the cache the one before left: the payloads by kind and the
\* cache after the last
RECURSIVE AnalyzeEach(_, _, _)
AnalyzeEach(kinds, S, ps) ==
    IF kinds = <<>> THEN [payloads |-> <<>>, prefs |-> ps]
    ELSE CHOOSE r \in
            {[payloads |-> (kinds[1] :> first.payload)
                              @@ AnalyzeEach(Tail(kinds), S, first.prefs).payloads,
              prefs |-> AnalyzeEach(Tail(kinds), S, first.prefs).prefs] :
                first \in {AnalyzeCall(kinds[1], FALSE, S, ps)}} : TRUE

\* _generate_claude_insights and the guard before it: "" without an API key,
\* the text of the response, or the text of the except branch
ClaudeInsights(llm) ==
    IF llm = "no_key" THEN ""
    ELSE IF llm = "ok" THEN "insights"
    ELSE "Claude analysis unavailable."

\* generate_overall_insights, called by GET /analysis/insights (force FALSE)
\* and POST /analysis/regenerate/insights (force TRUE): past its own cache
\* check it builds the insights from the four analyses, asks the LLM when
\* an API key is set, and saves them.  llm is what the LLM call comes to:
\* no_key, ok or fails; none when the call is not reached
GenerateInsights(force, llm) ==
    /\ IsNone(ret)
    /\ LET cached == Cached(prefs, "overall_insights")
       IN  IF ~force /\ ~IsNone(cached)
           THEN /\ ret' = Some([kind |-> "insights", force |-> force, llm |-> "none",
                                payload |-> Val(cached)])
                /\ prefs' = prefs
           ELSE \E analyses \in {AnalyzeEach(InsightOrder, store, prefs)} :
                \E insights \in {[key_preferences |-> AnalysisSummary(analyses.payloads),
                                   claude_analysis |-> ClaudeInsights(llm)]} :
                    /\ ret' = Some([kind |-> "insights", force |-> force, llm |-> llm,
                                    payload |-> insights])
                    /\ prefs' = SaveAnalysis(analyses.prefs, "overall_insights", insights)
    /\ UNCHANGED <<movies, ratings, cast, posters, jobs, chatMessages, imp, req, chat>>

\* generate_overall_insights without an API key
GenerateOverallInsights(force) == GenerateInsights(force, "no_key")

\* POST /analysis/regenerate/{kind} with a kind outside valid_types: 400
RegenerateInvalid ==
    /\ IsNone(ret)
    /\ ret' = Some([kind |-> "popularity", force |-> TRUE, payload |-> [status |-> 400]])
    /\ UNCHANGED <<movies, ratings, cast, posters, prefs, jobs, chatMessages, imp, req, chat>>

\* the files and the analyses requested beside the insights
InsightFiles == {CsvFile(TRUE, TRUE, <<RowA>>), CsvFile(TRUE, TRUE, <<RowB>>)}
InsightKinds == {"genres", "cast"}

NextInsights ==
    \/ \E file \in InsightFiles : ImportCsv(file, TRUE)
    \/ ImportBegin(1)
    \/ ImportRow(1)
    \/ ImportFinish(1)
    \/ \E kind \in InsightKinds, force \in BOOLEAN : Analyze(kind, force)
    \/ \E force \in BOOLEAN : GenerateOverallInsights(force)
    \/ RegenerateInvalid
    \/ Deliver

SpecInsights == Init /\ [][NextInsights]_vars

\* C18: every regenerate request recomputes: the four kinds and the overall
\* insights are returned and cached as computed from the Store at the time
\* of the call, whatever analyses were cached before; an invalid kind is
\* answered 400 and leaves the cache as it is
C18_RegenerateFromStore ==
    [][Served /\ Val(ret').force =>
        LET r == Val(ret')
        IN  IF r.kind = "insights"
            THEN /\ r.payload.key_preferences = FreshSummary(store)
                 /\ Cached(prefs', "overall_insights") = Some(r.payload)
            ELSE IF r.kind \in AnalysisKinds
            THEN /\ r.payload = Analysis(r.kind, store)
                 /\ ~ReturnsUnsaved(r.kind, store) => Cached(prefs', r.kind) = Some(r.payload)
            ELSE r.payload.status = 400 /\ prefs' = prefs]_vars

----------------------------------------------------------------------------
(* DELETE /reset next to imports, analyses and poster analyses: the        *)
(* query for an active job is one database step, the six deletes and their *)
(* commit the next                                                         *)

\* PosterAnalysis rows written before a reset
MaxPosters == 2

\* a poster analysis that also clears the runtime of the movie analysed
AnalyzeMoviePosterWritingMovie(movie_id, analysed) ==
    /\ Len(posters) < MaxPosters
    /\ posters' = IF analysed
                  THEN Append(posters, [id |-> NextId(posters), movie_id |-> movie_id])
                  ELSE posters
    /\ movies' = [k \in 1..Len(movies) |->
                    IF movies[k].id = movie_id
                    THEN [movies[k] EXCEPT !.runtime_minutes = None]
                    ELSE movies[k]]
    /\ UNCHANGED <<ratings, cast, prefs, jobs, chatMessages, imp, req, ret, chat>>

\* PosterAnalyzer.analyze_movie_poster: nothing is written when the download
\* gives no data or a step raises; else one row is added and committed
AnalyzeMoviePoster(movie_id, analysed) ==
    /\ Len(posters) < MaxPosters
    /\ posters' = IF analysed
                  THEN Append(posters, [id |-> NextId(posters), movie_id |-> movie_id])
                  ELSE posters
    /\ UNCHANGED <<movies, ratings, cast, prefs, jobs, chatMessages, imp, req, ret, chat>>

\* reset_scraping_data after the query: HTTPException 400 when an active row
\* was found, else every table is emptied in one transaction
ResetData(h) ==
    /\ req[h].pc = "checked"
    /\ req[h].op = "reset"
    /\ IF IsNone(req[h].seen)
       THEN /\ DeleteAllData
            /\ req' = [req EXCEPT ![h].pc = "accepted"]
       ELSE /\ UNCHANGED <<movies, ratings, cast, posters, prefs, jobs>>
            /\ req' = [req EXCEPT ![h].pc = "refused"]
    /\ UNCHANGED <<chatMessages, imp, ret, chat>>

\* the response of reset_scraping_data leaves the server
RespondReset(h) ==
    /\ req[h].pc \in {"accepted", "refused"}
    /\ req' = [req EXCEPT ![h] = IdleHandler]
    /\ UNCHANGED <<movies, ratings, cast, posters, prefs, jobs, chatMessages, imp, ret, chat>>

\* the file of the reset specification
ResetFiles == {CsvFile(TRUE, TRUE, <<RowA>>)}

NextReset ==
    \/ \E h \in Handlers, op \in {"import-csv", "reset"} : CheckActive(h, op)
    \/ \E h \in Handlers, file \in ResetFiles : ImportCsvData(h, 1, file)
    \/ ImportBegin(1)
    \/ ImportRow(1)
    \/ ImportFinish(1)
    \/ Analyze("genres", FALSE)
    \/ Deliver
    \/ \E m \in 1..Len(movies), analysed \in BOOLEAN : AnalyzeMoviePoster(movies[m].id, analysed)
    \/ \E h \in Handlers : ResetData(h)
    \/ \E h \in Handlers : RespondReset(h)

SpecReset == Init /\ [][NextReset]_vars

\* some job record has status pending or running
JobInProgress == \E k \in 1..Len(jobs) : jobs[k].status \in {"pending", "running"}

\* C19: a reset request whose query finds a job record with status pending or
\* running is refused and its step leaves Movie, UserRating, CastMember,
\* PosterAnalysis, the cached analyses and the job records as they were; a
\* reset that is accepted leaves all six collections empty.
C19_ResetRefusedOrComplete ==
    [][\A h \in Handlers :
         /\ (req[h].pc = "idle" /\ req'[h].pc = "checked" /\ req'[h].op = "reset")
               => (IsNone(req'[h].seen) <=> ~JobInProgress)
         /\ (req[h].pc = "checked" /\ req[h].op = "reset" /\ req'[h] # req[h])
               => IF IsNone(req[h].seen)
                  THEN /\ req'[h].pc = "accepted"
                       /\ movies' = <<>> /\ ratings' = <<>> /\ cast' = <<>>
                       /\ posters' = <<>> /\ prefs' = <<>> /\ jobs' = <<>>
                  ELSE /\ req'[h].pc = "refused"
                       /\ UNCHANGED <<movies, ratings, cast, posters, prefs, jobs>>]_vars

\* one reset was refused, and a later one was accepted after the import had
\* written its row
C19_Witness ==
    \E h, g \in Handlers :
        /\ req[h].pc = "refused"
        /\ req[g].pc = "accepted"
        /\ imp[1].pc = "done"
        /\ imp[1].i = 1
        /\ movies = <<>> /\ ratings = <<>> /\ cast = <<>>
        /\ posters = <<>> /\ prefs = <<>> /\ jobs = <<>>

----------------------------------------------------------------------------
(* Lookups by identifier: the three lookup tools, GET /ratings/{imdb_id}   *)
(* and POST /chat/message with a conversation_id                           *)

\* get_movie_rating: the first rated movie with that imdb_id, or
\* HTTPException 404
GetMovieRating(imdb_id) ==
    /\ IsNone(ret)
    /\ LET Hit(row) == row.movie.imdb_id = imdb_id
           result == First(JoinRatings(movies, ratings), Hit)
       IN  ret' = Some(IF IsNone(result)
                       THEN [tool |-> "get_movie_rating", input |-> imdb_id,
                             status |-> 404, rating |-> None]
                       ELSE [tool |-> "get_movie_rating", input |-> imdb_id,
                             status |-> 200, rating |-> Some(Val(result).rating)])
    /\ UNCHANGED <<movies, ratings, cast, posters, prefs, jobs, chatMessages, imp, req, chat>>

\* the status send_chat_message answers with: 200 with the reply; every
\* exception of the try block, the HTTPException 404 of an unknown
\* conversation included, is caught by except Exception and raised as 500
ChatStatus(c) ==
    IF c.pc = "replied" THEN 200
    ELSE IF c.pc = "raised" THEN 500
    ELSE 0

\* imdb ids asked of GET /ratings/{imdb_id}
RatingIds == {<<"t", "t", "1">>, <<"t", "t", "3">>, <<"t", "t", "9">>}

\* LLM responses of the lookup specification: no content blocks
LookupContents == {<<>>}

InitLookup == InitOn(ToolStores)

NextLookup ==
    \/ \E id \in Identifiers : CallGetMovieDetails(id)
    \/ \E id \in Identifiers, t \in SimilarityTypes : CallFindSimilarMovies(id, t, 2)
    \/ \E q \in Queries, r \in RoleFilters : CallGetCastMemberMovies(q, r)
    \/ \E id \in RatingIds : GetMovieRating(id)
    \/ ToolReturn
    \/ \E conv \in 0..(Len(chatMessages) + 1) : SendChatMessage(conv)
    \/ \E out \in Outcomes(LookupContents) : FirstResponse(out)

SpecLookup == InitLookup /\ [][NextLookup]_vars

\* the identifier names a movie that has a rating
NamesRated(identifier) ==
    \E k \in 1..Len(movies) :
        /\ Identified(movies[k], identifier)
        /\ \E r \in 1..Len(ratings) : ratings[r].movie_id = movies[k].id

\* the identifier names a movie
NamesMovie(identifier) == \E k \in 1..Len(movies) : Identified(movies[k], identifier)

\* a cast row of a rated movie carries the name, in the role asked for
NamesCast(name, role_filter) ==
    \E c \in 1..Len(cast) :
        /\ ILike(Some(cast[c].name), name)
        /\ role_filter # "" => cast[c].role = role_filter
        /\ \E r \in 1..Len(ratings) : ratings[r].movie_id = cast[c].movie_id

\* the lookup answered in ret resolved to nothing
ToolNotFound ==
    \/ Called("get_movie_details") /\ ~NamesRated(Val(ret).input.identifier)
    \/ Called("find_similar_movies") /\ ~NamesMovie(Val(ret).input.movie_identifier)
    \/ Called("get_cast_member_movies")
          /\ ~NamesCast(Val(ret).input.name, Val(ret).input.role_filter)

\* MovieTools, execute_mcp_tool and handle_call_tool all answer with a message
AllReport == \A who \in {"tools", "chat", "server"} : Val(ret)[who].status = "message"

\* the imdb_id asked of GET /ratings/{imdb_id} has no rated movie
RatingNotFound ==
    /\ Called("get_movie_rating")
    /\ ~\E k \in 1..Len(movies) :
            /\ movies[k].imdb_id = Val(ret).input
            /\ \E r \in 1..Len(ratings) : ratings[r].movie_id = movies[k].id

\* the request just answered named a conversation that does not exist
ConversationNotFound == chat.pc \in {"replied", "raised"} /\ chat.conv > Len(chatMessages)

\* a step that answers a lookup which resolved to nothing
NotFoundStep ==
    \/ IsNone(ret) /\ (ToolNotFound' \/ RatingNotFound')
    \/ chat' # chat /\ ConversationNotFound'

\* C20: a lookup whose identifier resolves to nothing does not raise: the
\* tools get_movie_details, find_similar_movies and get_cast_member_movies
\* answer with an error message, GET /ratings/{imdb_id} and POST /chat/message
\* with an unknown conversation_id answer HTTP 404, and no stored state changes.
C20_NotFoundReported ==
    /\ [](ToolNotFound => AllReport)
    /\ [](RatingNotFound => Val(ret).status = 404)
    /\ [](ConversationNotFound => ChatStatus(chat) = 404)
    /\ [][NotFoundStep
            => UNCHANGED <<movies, ratings, cast, posters, prefs, jobs, chatMessages>>]_vars

----------------------------------------------------------------------------
(* The overall insights with and without an API key: the endpoints build   *)
(* PreferenceAnalyzer(db) without one; a caller that passes a key reaches  *)
(* the LLM call                                                            *)

NextElaborate ==
    \/ \E file \in InsightFiles : ImportCsv(file, TRUE)
    \/ ImportBegin(1)
    \/ ImportRow(1)
    \/ ImportFinish(1)
    \/ \E force \in BOOLEAN : GenerateOverallInsights(force)
    \/ \E force \in BOOLEAN, llm \in {"ok", "fails"} : GenerateInsights(force, llm)
    \/ Deliver

SpecElaborate == Init /\ [][NextElaborate]_vars

\* C21: when the LLM call made while composing the insights fails, the
\* request is still answered with insights, and claude_analysis of the result
\* returned and of the result cached is the empty string.
C21_FailedElaborationEmpty ==
    [][(Served /\ Val(ret').kind = "insights" /\ Val(ret').llm = "fails") =>
          /\ Val(ret').payload.claude_analysis = ""
          /\ ~IsNone(Cached(prefs', "overall_insights"))
          /\ Val(Cached(prefs', "overall_insights")).claude_analysis = ""]_vars

\* C22: PosterAnalysis is one-to-one with Movie: after any sequence of
\* analyze_movie_poster calls, repeated calls for one movie included, no two
\* PosterAnalysis rows carry the same movie_id.
C22_PosterOnePerMovie ==
    \A i, j \in 1..Len(posters) : posters[i].movie_id = posters[j].movie_id => i = j

----------------------------------------------------------------------------
(* Who writes what: imports and reset next to the analyses, the poster     *)
(* analyses and the tool operations                                        *)

\* query(PosterAnalysis, UserRating, Movie) joined on the movie: one row per
\* poster analysis and rating of a movie, by movie id
PosterJoin(S, ps) ==
    LET Rated(p) == /\ \E m \in 1..Len(S[1]) : S[1][m].id = p.movie_id
                    /\ \E r \in 1..Len(S[2]) : S[2][r].movie_id = p.movie_id
        rated == SelectSeq(ps, Rated)
    IN  [k \in 1..Len(rated) |-> rated[k].movie_id]

\* analyze_poster_styles, called by GET /analysis/poster-style (force FALSE)
\* and POST /analysis/regenerate/poster-style (force TRUE): the cached
\* payload, or the empty result unsaved when no rated movie has a poster
\* analysis, or the figures of the joined rows, saved by
\* _save_poster_analysis.  The figures are held as the rows they are
\* computed from
AnalyzePosterStyles(force) ==
    /\ IsNone(ret)
    /\ LET cached == Cached(prefs, "poster_styles")
           results == PosterJoin(store, posters)
           fresh == [insights |-> IF results = <<>> THEN "No poster data available"
                                  ELSE "poster insights",
                     analysed |-> results, claude_analysis |-> ""]
       IN  IF ~force /\ ~IsNone(cached)
           THEN /\ ret' = Some([kind |-> "poster-style", force |-> force,
                                payload |-> Val(cached)])
                /\ prefs' = prefs
           ELSE /\ ret' = Some([kind |-> "poster-style", force |-> force, payload |-> fresh])
                /\ prefs' = IF results = <<>> THEN prefs
                            ELSE SaveAnalysis(prefs, "poster_styles", fresh)
    /\ UNCHANGED <<movies, ratings, cast, posters, jobs, chatMessages, imp, req, chat>>

\* the kinds asked for beside the insights and the poster styles
FrameKinds == {"genres", "cast"}

NextFrame ==
    \/ \E file \in ResetFiles : ImportCsv(file, TRUE)
    \/ ImportBegin(1)
    \/ ImportRow(1)
    \/ ImportFinish(1)
    \/ ResetScrapingData
    \/ \E kind \in FrameKinds : Analyze(kind, TRUE)
    \/ GenerateOverallInsights(FALSE)
    \/ AnalyzePosterStyles(TRUE)
    \/ \E m \in 1..Len(movies), analysed \in BOOLEAN : AnalyzeMoviePoster(movies[m].id, analysed)
    \/ CallFilterMovies(NoFilterArgs)
    \/ CallFindSimilarMovies(<<"t", "t", "1">>, "all", 2)
    \/ CallGetMovieDetails(<<"a">>)
    \/ CallSearchMovies(<<"a">>, 2)
    \/ CallGetCastMemberMovies(<<"O">>, "")
    \/ Deliver

SpecFrame == Init /\ [][NextFrame]_vars

\* the step answers a tool operation
ToolAnswered == Served /\ "tool" \in DOMAIN Val(ret')

\* C23: only the importer and reset write Movie, UserRating and CastMember:
\* every step that changes one of them is a step of the import task or a
\* reset that empties them; every analyze call, every poster analysis and
\* every tool operation leaves the three as they are, and a tool operation
\* changes no stored state at all.
C23_OnlyImporterWritesStore ==
    [][/\ store' # store => (imp' # imp \/ store' = <<<<>>, <<>>, <<>>>>)
       /\ Served => store' = store
       /\ posters' # posters /\ posters' # <<>> => store' = store
       /\ ToolAnswered =>
             UNCHANGED <<movies, ratings, cast, posters, prefs, jobs, chatMessages>>]_vars

\* a tool operation is answered on a Store with movies, poster analyses and
\* cached analyses
C23_Witness ==
    /\ ~IsNone(ret)
    /\ "tool" \in DOMAIN Val(ret)
    /\ Val(ret).tools.status = "movies"
    /\ movies # <<>>
    /\ posters # <<>>
    /\ Cached(prefs, "poster_styles") # None
    /\ Cached(prefs, "overall_insights") # None

----------------------------------------------------------------------------
(* POST /analysis/regenerate/{kind} under concurrent requests: the         *)
(* analysis is computed from the Store, _save_analysis queries the row of  *)
(* the kind, and its write is committed, as three database steps           *)

\* analyze_* with force_regenerate up to _save_analysis: the result computed
\* from the Store; the empty result is returned without a save
RegenerateCompute(h, kind) ==
    /\ req[h].pc = "idle"
    /\ req' = IF ReturnsUnsaved(kind, store) THEN req
              ELSE [req EXCEPT ![h] = [op |-> "regenerate", pc |-> "computed", seen |-> None,
                                       kind |-> kind, data |-> Analysis(kind, store)]]
    /\ UNCHANGED <<movies, ratings, cast, posters, prefs, jobs, chatMessages, imp, ret, chat>>

\* _save_analysis, the query: the first row of the kind, if any
SaveQuery(h) ==
    /\ req[h].pc = "computed"
    /\ LET Same(k) == prefs[k].analysis_type = req[h].kind
           rows == {k \in 1..Len(prefs) : Same(k)}
       IN  req' = [req EXCEPT ![h].pc = "queried",
                              ![h].seen = IF rows = {} THEN None
                                          ELSE Some(CHOOSE k \in rows : \A m \in rows : k <= m)]
    /\ UNCHANGED <<movies, ratings, cast, posters, prefs, jobs, chatMessages, imp, ret, chat>>

\* _save_analysis, the write and its commit: the row found is updated, or a
\* row is added
SaveCommit(h) ==
    /\ req[h].pc = "queried"
    /\ prefs' = IF IsNone(req[h].seen)
                THEN Append(prefs, [analysis_type |-> req[h].kind,
                                    analysis_data |-> req[h].data])
                ELSE [prefs EXCEPT ![Val(req[h].seen)].analysis_data = req[h].data]
    /\ req' = [req EXCEPT ![h] = IdleHandler]
    /\ UNCHANGED <<movies, ratings, cast, posters, jobs, chatMessages, imp, ret, chat>>

NextRegenerate ==
    \/ \E file \in InsightFiles : ImportCsv(file, TRUE)
    \/ ImportBegin(1)
    \/ ImportRow(1)
    \/ ImportFinish(1)
    \/ \E h \in Handlers, kind \in InsightKinds : RegenerateCompute(h, kind)
    \/ \E h \in Handlers : SaveQuery(h)
    \/ \E h \in Handlers : SaveCommit(h)

SpecRegenerate == Init /\ [][NextRegenerate]_vars

\* C24: with force-regenerate calls of one kind running concurrently the last
\* writer wins: the cache never holds two rows of a kind, and after every
\* committed write the payload an unforced read returns for the kind is the
\* payload of that write.
C24_LastWriterWins ==
    /\ [](\A i, j \in 1..Len(prefs) :
             prefs[i].analysis_type = prefs[j].analysis_type => i = j)
    /\ [][\A h \in Handlers :
             (req[h].pc = "queried" /\ req'[h].pc = "idle")
                => Cached(prefs', req[h].kind) = Some(req[h].data)]_vars

\* the statuses a job ends in
TerminalStatuses == {"completed", "failed", "stopped"}

\* C25: terminal job statuses are absorbing: a job record whose status is
\* completed, failed or stopped stays in the table with that status in every
\* later state, whatever the import loop still running writes.
C25_TerminalAbsorbing ==
    [][\A k \in 1..Len(jobs) :
          jobs[k].status \in TerminalStatuses
             => /\ k <= Len(jobs')
                /\ jobs'[k].status = jobs[k].status]_vars

----------------------------------------------------------------------------
(* The admission endpoints and the import task without stop requests,      *)
(* every request and every task step taken eventually                      *)

NextLive ==
    \/ \E h \in Handlers, op \in AdmissionOps : CheckActive(h, op)
    \/ \E h \in Handlers : StartScraping(h)
    \/ \E h \in Handlers, s \in Importers, file \in JobFiles : ImportCsvData(h, s, file)
    \/ \E h \in Handlers : ScrapeMissingPosters(h)
    \/ \E s \in Importers : ImportBegin(s)
    \/ \E s \in Importers : ImportRow(s)
    \/ \E s \in Importers : ImportFinish(s)

\* a request that has run its query goes on to its write or its 400; a
\* scheduled task runs, and a running loop takes its next step
Fairness ==
    /\ \A h \in Handlers : WF_vars(StartScraping(h))
    /\ \A h \in Handlers : WF_vars(ScrapeMissingPosters(h))
    /\ \A h \in Handlers :
          WF_vars(\E s \in Importers, file \in JobFiles : ImportCsvData(h, s, file))
    /\ \A s \in Importers : WF_vars(ImportBegin(s))
    /\ \A s \in Importers : WF_vars(ImportRow(s))
    /\ \A s \in Importers : WF_vars(ImportFinish(s))

SpecLive == Init /\ [][NextLive]_vars /\ Fairness

\* C26: every job record admitted by start, import-csv or scrape-posters
\* eventually has status completed, failed or stopped without any stop
\* request.
C26_JobsTerminate ==
    \A k \in 1..MaxJobs :
        (Len(jobs) >= k) ~> (Len(jobs) >= k /\ jobs[k].status \in TerminalStatuses)

----------------------------------------------------------------------------
(* Reset next to a stopped import: stop writes the job row only, the       *)
(* import task goes on                                                     *)

\* the file of the stop specification: two rows
StopFiles == {CsvFile(TRUE, TRUE, <<RowA, RowB>>)}

NextStop ==
    \/ \E h \in Handlers, op \in {"import-csv", "stop", "reset"} : CheckActive(h, op)
    \/ \E h \in Handlers, file \in StopFiles : ImportCsvData(h, 1, file)
    \/ \E h \in Handlers : StopScraping(h)
    \/ ImportBegin(1)
    \/ ImportRow(1)
    \/ ImportFinish(1)
    \/ \E h \in Handlers : ResetData(h)
    \/ \E h \in Handlers : RespondReset(h)

SpecStop == Init /\ [][NextStop]_vars

\* C27: after an accepted reset Movie, UserRating and CastMember stay empty
\* until a new import job is admitted: rows are written into the empty
\* collections only while the job table holds a record, so never by a run
\* whose record the reset has deleted.
C27_EmptyUntilAdmitted ==
    [][(store = <<<<>>, <<>>, <<>>>> /\ store' # store) => jobs # <<>>]_vars

\* C28: an unforced analyze call made while the Store holds no rated movie
\* returns its result without creating a cache entry, for every kind
\* (genres, years, runtime, cast, overall insights).
C28_EmptyNotCached ==
    [][(Served /\ ~Val(ret').force /\ JoinRatings(movies, ratings) = <<>>)
          => prefs' = prefs]_vars

\* the positions of the assistant messages with tool invocations in the
\* messages of the request in flight
ToolCalls(messages) ==
    {k \in 1..Len(messages) : messages[k].type = "content_blocks"}

\* the blocks of the first response that are tool invocations
ToolUseBlocks(blocks) == {k \in 1..Len(blocks) : IsToolUse(blocks[k])}

\* C29: in every request the chat turn sends to the LLM, the assistant message
\* that contains the tool invocations appears once and is immediately
\* followed by one tool-results message holding a result for every tool
\* invocation of that assistant message.
C29_ToolResultsPaired ==
    chat.pc = "followup" =>
        /\ Cardinality(ToolCalls(chat.messages)) = 1
        /\ \A k \in ToolCalls(chat.messages) :
              /\ k < Len(chat.messages)
              /\ chat.messages[k + 1].type = "tool_result"
              /\ {chat.messages[k + 1].ref} = ToolUseBlocks(chat.blocks)

\* C30: in every reachable state each job record has
\* 0 <= scraped_ratings <= total_ratings, and scraped_ratings = total_ratings
\* when its status is completed; scraped_ratings of a record never decreases
\* while the record is running.
C30_ProgressWithinTotal ==
    /\ [](\A k \in 1..Len(jobs) :
             /\ 0 <= jobs[k].scraped_ratings
             /\ jobs[k].scraped_ratings <= jobs[k].total_ratings
             /\ jobs[k].status = "completed"
                   => jobs[k].scraped_ratings = jobs[k].total_ratings)
    /\ [][\A k \in 1..Len(jobs) :
             (jobs[k].status = "running" /\ k <= Len(jobs') /\ jobs'[k].status = "running")
                => jobs'[k].scraped_ratings >= jobs[k].scraped_ratings]_vars

====
